---- MODULE Spec2Model ----
(***************************************************************************)
(* Model of taskinity/core/taskinity_core.py: the DSL parser parse_dsl and *)
(* the dependency-ordered executor run_flow_from_dsl.                      *)
(*                                                                         *)
(* Python strings are sequences of one-character strings, so that strip,   *)
(* split, startswith, the regular expressions and the substring test of    *)
(* the source are computed and not assumed.  A dict whose iteration order  *)
(* the code relies on is a record [keys, at]: keys is the insertion order, *)
(* at the mapping.                                                         *)
(***************************************************************************)
EXTENDS Integers, Sequences, FiniteSets, TLC

VARIABLES
    entry,          \* the function the caller invoked
    pc,             \* position in the code
    dsl_text,       \* the text argument, one element per "\n"-separated line
    flow_data,      \* parse_dsl's flow_data
    current_task,   \* parse_dsl's current_task (<<>> models None)
    i,              \* index into lines of the line the parse loop is at
    REGISTRY,       \* the module-level task registry
    input_data,     \* run_flow_from_dsl's input_data
    dependencies,   \* run_flow_from_dsl's dependencies
    visited,        \* run_flow_from_dsl's visited
    temp_visited,   \* run_flow_from_dsl's temp_visited
    order,          \* run_flow_from_dsl's order
    stack,          \* the active calls of visit, innermost last
    j,              \* index of the task the loop "for task in dependencies" is at
    n,              \* index into order of the task the execution loop is at
    results,        \* run_flow_from_dsl's results
    calls,          \* every invocation of a task callable so far, with its keyword arguments
    ret,            \* the value returned to the caller
    exc,            \* the exception raised to the caller
    earlier,        \* the outcomes of the earlier calls made by the same caller
    suspended,      \* the locals of the call of the thread that is not running
    running,        \* the thread that is running
    validate_input,     \* task(validate_input=...): "None" or the validator
    validate_output,    \* task(validate_output=...): "None" or the validator
    execution_info,     \* the execution_info dicts the calls of the task wrapper made, in order
    FLOW_HISTORY,       \* the module-level list; an element refers to an execution_info dict
    result,             \* the wrapper's result
    caught,             \* the exception on its way to the wrapper's outer except clause
    invocations,        \* every call a wrapper made so far: what it called and how that ended
    flow_name,          \* flow decorator's flow_name
    flow_info,          \* flow wrapper's flow_info
    flow_files,         \* the files written under FLOW_DIR, in the order written
    max_attempts,       \* retry's max_attempts
    delay,              \* retry's delay
    backoff,            \* retry's backoff
    attempt,            \* retry wrapper's attempt
    current_delay,      \* retry wrapper's current_delay
    slept,              \* the arguments of the time.sleep calls made so far
    cache,              \* _cache[cache_key] of the function decorated with cache_result
    ttl,                \* cache_result's ttl: <<>> for None, <<t>> for the float t
    now,                \* what time.time() returns
    arg_key,            \* cache wrapper's arg_key
    json_data,          \* validate_schema's data
    schema              \* validate_schema's schema

vars == <<entry, pc, dsl_text, flow_data, current_task, i, REGISTRY, input_data,
          dependencies, visited, temp_visited, order, stack, j, n, results, calls,
          ret, exc, earlier, suspended, running, validate_input, validate_output,
          execution_info, FLOW_HISTORY, result, caught, invocations, max_attempts,
          delay, backoff, attempt, current_delay, slept, cache, ttl, now, arg_key,
          json_data, schema, flow_name, flow_info, flow_files>>

parseVars == <<dsl_text, flow_data, current_task, i>>
runVars == <<dependencies, visited, temp_visited, order, stack, j, n, results, calls>>
callerVars == <<earlier, suspended, running>>
flowWrapVars == <<flow_name, flow_info, flow_files>>
taskVars == <<validate_input, validate_output, execution_info, FLOW_HISTORY, result, caught,
              flowWrapVars>>
retryVars == <<max_attempts, delay, backoff, attempt, current_delay, slept>>
cacheVars == <<cache, ttl, now, arg_key>>
schemaVars == <<json_data, schema>>
toolVars == <<retryVars, cacheVars, schemaVars>>
utilVars == <<taskVars, invocations, toolVars>>
outerVars == <<utilVars, callerVars>>
flowVars == <<callerVars, parseVars, REGISTRY, input_data, runVars>>
flowLocals == <<parseVars, REGISTRY, input_data, runVars>>

(***************************************************************************)
(* Bounds of the explored inputs.                                          *)
(***************************************************************************)
MaxBodyParse == 3   \* lines after the first line, when parse_dsl is called directly
MaxBodyRun == 3     \* lines after the flow header, when run_flow_from_dsl is called
MaxBodyDeep == 4    \* lines after the flow header, in the longer texts for parse_dsl
MaxCalls == 2       \* calls of run_flow_from_dsl the caller makes one after the other
MaxBodyThreads == 2 \* lines after the flow header, in the texts of two concurrent calls
MaxBodySort == 3    \* lines after the flow header, in the runs followed to the end of the ordering
MaxTaskCalls == 3   \* calls of the wrapper of a decorated function
MaxAttempts == 3    \* the largest max_attempts given to retry
MaxRetryCalls == 2  \* calls of the wrapper of a function decorated with retry
MaxCacheCalls == 3  \* calls of the wrapper of a function decorated with cache_result
MaxTime == 3        \* the last value of the clock
MaxFlowCalls == 4   \* calls of the wrapper of a function decorated with flow

(***************************************************************************)
(* Characters and string literals of the source.                           *)
(***************************************************************************)
Whitespace == {" "}
WordChars ==
    {"a", "b", "c", "d", "e", "f", "g", "h", "i", "j", "k", "l", "m", "n", "o", "p", "q",
     "r", "s", "t", "u", "v", "w", "x", "y", "z", "F", "U", "0", "1", "2", "3", "_"}
Quote == {"\""}

S_flow == <<"f", "l", "o", "w">>
S_task == <<"t", "a", "s", "k">>
S_arrow == <<"-", ">">>
S_descriptionColon == <<"d", "e", "s", "c", "r", "i", "p", "t", "i", "o", "n", ":">>
S_UnnamedFlow == <<"U", "n", "n", "a", "m", "e", "d", "F", "l", "o", "w">>
S_name == <<"n", "a", "m", "e">>
S_inputs == <<"i", "n", "p", "u", "t", "s">>
S_outputs == <<"o", "u", "t", "p", "u", "t", "s">>
S_result == <<"_", "r", "e", "s", "u", "l", "t">>

(***************************************************************************)
(* str methods.                                                            *)
(***************************************************************************)
RECURSIVE lstrip(_, _)
lstrip(s, C) == IF Len(s) > 0 /\ s[1] \in C THEN lstrip(Tail(s), C) ELSE s

RECURSIVE rstrip(_, _)
rstrip(s, C) ==
    IF Len(s) > 0 /\ s[Len(s)] \in C THEN rstrip(SubSeq(s, 1, Len(s) - 1), C) ELSE s

strip(s, C) == rstrip(lstrip(s, C), C)

\* s[p..] begins with prefix
StartsWithAt(s, p, prefix) ==
    /\ p + Len(prefix) - 1 <= Len(s)
    /\ SubSeq(s, p, p + Len(prefix) - 1) = prefix

startswith(s, prefix) == StartsWithAt(s, 1, prefix)

\* x in s, for strings
IsSubstring(x, s) == \E p \in 1..(Len(s) + 1) : StartsWithAt(s, p, x)

\* index of the first c in s at or after p, 0 when there is none
RECURSIVE IndexOf(_, _, _)
IndexOf(s, c, p) ==
    IF p > Len(s) THEN 0 ELSE IF s[p] = c THEN p ELSE IndexOf(s, c, p + 1)

\* s.split(":", 1) of a string that contains a colon
split_colon(s) ==
    LET k == IndexOf(s, ":", 1)
    IN  <<SubSeq(s, 1, k - 1), SubSeq(s, k + 1, Len(s))>>

(***************************************************************************)
(* re.match of the three patterns.  Every quantifier is greedy and is      *)
(* followed by a character outside its class, so a match takes the longest *)
(* run and backtracking changes nothing.                                   *)
(***************************************************************************)
\* length of the longest run of characters of C in s starting at p
RECURSIVE RunLen(_, _, _)
RunLen(s, p, C) == IF p <= Len(s) /\ s[p] \in C THEN 1 + RunLen(s, p + 1, C) ELSE 0

NoMatch == [ok |-> FALSE, g1 |-> <<>>, g2 |-> <<>>]

\* re.match(kw + r"\s+(\w+):", line)
MatchKeyword(kw, line) ==
    LET ns == RunLen(line, Len(kw) + 1, Whitespace)
        p == Len(kw) + 1 + ns
        nw == RunLen(line, p, WordChars)
    IN  IF /\ startswith(line, kw)
           /\ ns >= 1
           /\ nw >= 1
           /\ StartsWithAt(line, p + nw, <<":">>)
        THEN [ok |-> TRUE, g1 |-> SubSeq(line, p, p + nw - 1), g2 |-> <<>>]
        ELSE NoMatch

flow_match(line) == MatchKeyword(S_flow, line)

task_match(line) == MatchKeyword(S_task, line)

\* re.match(r"(\w+)\s*->\s*(\w+)", line)
connection_match(line) ==
    LET n1 == RunLen(line, 1, WordChars)
        p1 == 1 + n1 + RunLen(line, 1 + n1, Whitespace)
        p2 == p1 + 2 + RunLen(line, p1 + 2, Whitespace)
        n2 == RunLen(line, p2, WordChars)
    IN  IF n1 >= 1 /\ StartsWithAt(line, p1, S_arrow) /\ n2 >= 1
        THEN [ok |-> TRUE, g1 |-> SubSeq(line, 1, n1), g2 |-> SubSeq(line, p2, p2 + n2 - 1)]
        ELSE NoMatch

(***************************************************************************)
(* Values and dicts.                                                       *)
(***************************************************************************)
\* a value stored in a task dict: a str or a list of str
StrV(s) == [t |-> "str", s |-> s, l |-> <<>>]
ListV(l) == [t |-> "list", s |-> <<>>, l |-> l]

\* x in v
Contains(v, x) ==
    IF v.t = "list" THEN \E p \in 1..Len(v.l) : v.l[p] = x ELSE IsSubstring(x, v.s)

EmptyDict == [keys |-> <<>>, at |-> <<>>]
DictHas(d, k) == k \in DOMAIN d.at
DictSet(d, k, v) ==
    IF DictHas(d, k)
    THEN [d EXCEPT !.at[k] = v]
    ELSE [keys |-> Append(d.keys, k), at |-> (k :> v) @@ d.at]

\* d.get(k, default) of a task dict
Get(d, k, default) == IF k \in DOMAIN d THEN d[k] ELSE default

\* d[k] = v of a task dict
WithKey(d, k, v) == (k :> v) @@ d

NoException == [type |-> "None", about |-> <<>>]
Raised(type, about) == [type |-> type, about |-> about]

NoReturn == [kind |-> "None", value |-> <<>>]
Returned(kind, value) == [kind |-> kind, value |-> value]

(***************************************************************************)
(* parse_dsl                                                               *)
(***************************************************************************)
\* lines = [line.strip() for line in dsl_text.strip().split("\n") if line.strip()]
RECURSIVE StrippedLines(_)
StrippedLines(text) ==
    IF text = <<>> THEN <<>>
    ELSE LET s == strip(Head(text), Whitespace)
         IN  IF Len(s) > 0 THEN <<s>> \o StrippedLines(Tail(text))
             ELSE StrippedLines(Tail(text))

lines == StrippedLines(dsl_text)

InitialFlowData ==
    [name |-> S_UnnamedFlow, description |-> <<>>, tasks |-> EmptyDict, connections |-> <<>>]

NewTask(task_name) ==
    (S_name :> StrV(task_name)) @@ (S_inputs :> ListV(<<>>)) @@ (S_outputs :> ListV(<<>>))

\* EnsureTask with the entry written whether or not the task exists
EnsureTask_Replace(tasks, task_name) == DictSet(tasks, task_name, NewTask(task_name))

\* if task_name not in flow_data["tasks"]: flow_data["tasks"][task_name] = {...}
EnsureTask(tasks, task_name) ==
    IF DictHas(tasks, task_name) THEN tasks ELSE DictSet(tasks, task_name, NewTask(task_name))

\* FlowName with the first word of the line taken for the name, header or not
FlowName_FirstWord(first) ==
    IF RunLen(first, 1, WordChars) > 0
    THEN SubSeq(first, 1, RunLen(first, 1, WordChars))
    ELSE S_UnnamedFlow

\* the name the first line gives the flow
FlowName(first) == IF flow_match(first).ok THEN flow_match(first).g1 ELSE S_UnnamedFlow

\* AddConnection with a connection that is already declared left out
AddConnection_Unique(connections, source, target) ==
    IF \E p \in 1..Len(connections) : connections[p] = [source |-> source, target |-> target]
    THEN connections
    ELSE Append(connections, [source |-> source, target |-> target])

\* flow_data["connections"].append({"source": source, "target": target})
AddConnection(connections, source, target) ==
    Append(connections, [source |-> source, target |-> target])

\* ParseLineStep with the property test made before the description test
ParseLineStep_PropertyFirst(fd, cur, line) ==
    IF /\ cur # <<>>
       /\ IndexOf(line, ":", 1) > 0
       /\ ~connection_match(line).ok
       /\ ~task_match(line).ok
    THEN LET key == strip(split_colon(line)[1], Whitespace)
             value == strip(strip(split_colon(line)[2], Whitespace), Quote)
         IN  [fd |-> [fd EXCEPT !.tasks.at[cur] = WithKey(@, key, StrV(value))],
              cur |-> cur]
    ELSE IF startswith(line, S_descriptionColon)
    THEN [fd |-> [fd EXCEPT !.description =
                        strip(strip(split_colon(line)[2], Whitespace), Quote)],
          cur |-> cur]
    ELSE IF connection_match(line).ok
    THEN LET m == connection_match(line)
         IN  [fd |-> [fd EXCEPT
                        !.connections = AddConnection(@, m.g1, m.g2),
                        !.tasks = EnsureTask(EnsureTask(@, m.g1), m.g2)],
              cur |-> cur]
    ELSE IF task_match(line).ok
    THEN LET t == task_match(line).g1
         IN  [fd |-> [fd EXCEPT !.tasks = EnsureTask(@, t)], cur |-> t]
    ELSE [fd |-> fd, cur |-> cur]

\* ParseLineStep with the current task closed by a connection line
ParseLineStep_ConnectionClosesTask(fd, cur, line) ==
    IF startswith(line, S_descriptionColon)
    THEN [fd |-> [fd EXCEPT !.description =
                        strip(strip(split_colon(line)[2], Whitespace), Quote)],
          cur |-> cur]
    ELSE IF connection_match(line).ok
    THEN LET m == connection_match(line)
         IN  [fd |-> [fd EXCEPT
                        !.connections = AddConnection(@, m.g1, m.g2),
                        !.tasks = EnsureTask(EnsureTask(@, m.g1), m.g2)],
              cur |-> <<>>]
    ELSE IF task_match(line).ok
    THEN LET t == task_match(line).g1
         IN  [fd |-> [fd EXCEPT !.tasks = EnsureTask(@, t)], cur |-> t]
    ELSE IF cur # <<>> /\ IndexOf(line, ":", 1) > 0
    THEN LET key == strip(split_colon(line)[1], Whitespace)
             value == strip(strip(split_colon(line)[2], Whitespace), Quote)
         IN  [fd |-> [fd EXCEPT !.tasks.at[cur] = WithKey(@, key, StrV(value))],
              cur |-> cur]
    ELSE [fd |-> fd, cur |-> cur]

\* One iteration of "for line in lines[1:]": the flow_data and current_task it leaves.
ParseLineStep(fd, cur, line) ==
    IF startswith(line, S_descriptionColon)
    THEN [fd |-> [fd EXCEPT !.description =
                        strip(strip(split_colon(line)[2], Whitespace), Quote)],
          cur |-> cur]
    ELSE IF connection_match(line).ok
    THEN LET m == connection_match(line)
         IN  [fd |-> [fd EXCEPT
                        !.connections = AddConnection(@, m.g1, m.g2),
                        !.tasks = EnsureTask(EnsureTask(@, m.g1), m.g2)],
              cur |-> cur]
    ELSE IF task_match(line).ok
    THEN LET t == task_match(line).g1
         IN  [fd |-> [fd EXCEPT !.tasks = EnsureTask(@, t)], cur |-> t]
    ELSE IF cur # <<>> /\ IndexOf(line, ":", 1) > 0
    THEN LET key == strip(split_colon(line)[1], Whitespace)
             value == strip(strip(split_colon(line)[2], Whitespace), Quote)
         IN  [fd |-> [fd EXCEPT !.tasks.at[cur] = WithKey(@, key, StrV(value))],
              cur |-> cur]
    ELSE [fd |-> fd, cur |-> cur]

\* AppendUnlessPresent without the test that the item is already there
AppendUnlessPresent_Always(tasks, owner, key, item) ==
    IF DictHas(tasks, owner)
    THEN LET d == IF key \in DOMAIN tasks.at[owner] THEN tasks.at[owner]
                  ELSE WithKey(tasks.at[owner], key, ListV(<<>>))
         IN  IF d[key].t = "list"
             THEN [ok |-> TRUE,
                   tasks |-> [tasks EXCEPT !.at[owner] =
                                 WithKey(d, key, ListV(Append(d[key].l, item)))]]
             ELSE [ok |-> FALSE, tasks |-> tasks]
    ELSE [ok |-> TRUE, tasks |-> tasks]

\* One half of the second pass's loop body: item is appended to tasks[owner][key]
\* unless it is already in it.  str has no append: ok is FALSE for AttributeError.
AppendUnlessPresent(tasks, owner, key, item) ==
    IF DictHas(tasks, owner) /\ ~Contains(Get(tasks.at[owner], key, ListV(<<>>)), item)
    THEN LET d == IF key \in DOMAIN tasks.at[owner] THEN tasks.at[owner]
                  ELSE WithKey(tasks.at[owner], key, ListV(<<>>))
         IN  IF d[key].t = "list"
             THEN [ok |-> TRUE,
                   tasks |-> [tasks EXCEPT !.at[owner] =
                                 WithKey(d, key, ListV(Append(d[key].l, item)))]]
             ELSE [ok |-> FALSE, tasks |-> tasks]
    ELSE [ok |-> TRUE, tasks |-> tasks]

\* "for conn in flow_data["connections"]" from the p-th connection on
RECURSIVE ProcessConnections(_, _, _)
ProcessConnections(tasks, connections, p) ==
    IF p > Len(connections) THEN [ok |-> TRUE, tasks |-> tasks]
    ELSE LET source == connections[p].source
             target == connections[p].target
             out == AppendUnlessPresent(tasks, source, S_outputs, target)
             inp == IF out.ok THEN AppendUnlessPresent(out.tasks, target, S_inputs, source)
                    ELSE out
         IN  IF inp.ok THEN ProcessConnections(inp.tasks, connections, p + 1) ELSE inp

\* where parse_dsl's caller continues
AfterParse == IF entry = "parse_dsl" THEN "done" ELSE "build_dependencies"

\* ParseStart with the loop over the lines started at the first line
ParseStart_FromFirstLine ==
    /\ pc = "parse_dsl"
    /\ IF lines = <<>>
       THEN /\ pc' = AfterParse
            /\ flow_data' = InitialFlowData
            /\ ret' = IF entry = "parse_dsl" THEN Returned("flow_data", InitialFlowData)
                       ELSE ret
            /\ UNCHANGED <<current_task, i>>
       ELSE /\ pc' = "parse_loop"
            /\ flow_data' = [InitialFlowData EXCEPT !.name = FlowName(lines[1])]
            /\ current_task' = <<>>
            /\ i' = 1
            /\ UNCHANGED ret
    /\ UNCHANGED <<outerVars, entry, dsl_text, REGISTRY, input_data, runVars, exc>>

\* lines 244-256: the empty text returns at once; else the first line names the flow
ParseStart ==
    /\ pc = "parse_dsl"
    /\ IF lines = <<>>
       THEN /\ pc' = AfterParse
            /\ flow_data' = InitialFlowData
            /\ ret' = IF entry = "parse_dsl" THEN Returned("flow_data", InitialFlowData)
                       ELSE ret
            /\ UNCHANGED <<current_task, i>>
       ELSE /\ pc' = "parse_loop"
            /\ flow_data' = [InitialFlowData EXCEPT !.name = FlowName(lines[1])]
            /\ current_task' = <<>>
            /\ i' = 2
            /\ UNCHANGED ret
    /\ UNCHANGED <<outerVars, entry, dsl_text, REGISTRY, input_data, runVars, exc>>

\* lines 257-300: one line of lines[1:]
ParseLine ==
    /\ pc = "parse_loop"
    /\ i <= Len(lines)
    /\ LET r == ParseLineStep(flow_data, current_task, lines[i])
       IN  /\ flow_data' = r.fd
           /\ current_task' = r.cur
    /\ i' = i + 1
    /\ UNCHANGED <<outerVars, entry, pc, dsl_text, REGISTRY, input_data, runVars, ret, exc>>

\* lines 302-317: the second pass and the return
ParseFinish ==
    /\ pc = "parse_loop"
    /\ i > Len(lines)
    /\ LET r == ProcessConnections(flow_data.tasks, flow_data.connections, 1)
       IN  IF r.ok
           THEN /\ flow_data' = [flow_data EXCEPT !.tasks = r.tasks]
                /\ pc' = AfterParse
                /\ ret' = IF entry = "parse_dsl"
                           THEN Returned("flow_data", [flow_data EXCEPT !.tasks = r.tasks])
                           ELSE ret
                /\ UNCHANGED exc
           ELSE /\ pc' = "raised"
                /\ exc' = Raised("AttributeError", <<>>)
                /\ UNCHANGED <<flow_data, ret>>
    /\ UNCHANGED <<outerVars, entry, dsl_text, current_task, i, REGISTRY, input_data, runVars>>

(***************************************************************************)
(* run_flow_from_dsl                                                       *)
(***************************************************************************)
\* lines 343-346; ok is FALSE when dependencies[target] raises KeyError
BuildDependencyMap(fd) ==
    [ok |-> \A p \in 1..Len(fd.connections) : DictHas(fd.tasks, fd.connections[p].target),
     map |-> [keys |-> fd.tasks.keys,
              at |-> [t \in DOMAIN fd.tasks.at |->
                        {fd.connections[p].source : p \in
                            {q \in 1..Len(fd.connections) : fd.connections[q].target = t}}]]]

\* BuildDependencies with results kept from one call to the next instead of set to {}
BuildDependencies_ResultsKept ==
    /\ pc = "build_dependencies"
    /\ LET r == BuildDependencyMap(flow_data)
       IN  IF r.ok
           THEN /\ dependencies' = r.map
                /\ pc' = "sort"
                /\ UNCHANGED exc
           ELSE /\ pc' = "raised"
                /\ exc' = Raised("KeyError", <<>>)
                /\ UNCHANGED dependencies
    /\ results' = results
    /\ visited' = {}
    /\ temp_visited' = {}
    /\ order' = <<>>
    /\ stack' = <<>>
    /\ j' = 1
    /\ UNCHANGED <<outerVars, entry, parseVars, REGISTRY, input_data, n, calls, ret>>

\* BuildDependencies with every task of the flow looked up in the registry before
\* the ordering begins
BuildDependencies_ChecksRegistry ==
    /\ pc = "build_dependencies"
    /\ LET r == BuildDependencyMap(flow_data)
           unknown == {t \in DOMAIN flow_data.tasks.at : t \notin DOMAIN REGISTRY}
       IN  IF ~r.ok
           THEN /\ pc' = "raised"
                /\ exc' = Raised("KeyError", <<>>)
                /\ UNCHANGED dependencies
           ELSE IF unknown # {}
           THEN /\ pc' = "raised"
                /\ exc' = Raised("ValueError: Task not found in registry",
                              CHOOSE t \in unknown : TRUE)
                /\ UNCHANGED dependencies
           ELSE /\ dependencies' = r.map
                /\ pc' = "sort"
                /\ UNCHANGED exc
    /\ results' = <<>>
    /\ visited' = {}
    /\ temp_visited' = {}
    /\ order' = <<>>
    /\ stack' = <<>>
    /\ j' = 1
    /\ UNCHANGED <<outerVars, entry, parseVars, REGISTRY, input_data, n, calls, ret>>

\* lines 336-351
BuildDependencies ==
    /\ pc = "build_dependencies"
    /\ LET r == BuildDependencyMap(flow_data)
       IN  IF r.ok
           THEN /\ dependencies' = r.map
                /\ pc' = "sort"
                /\ UNCHANGED exc
           ELSE /\ pc' = "raised"
                /\ exc' = Raised("KeyError", <<>>)
                /\ UNCHANGED dependencies
    /\ results' = <<>>
    /\ visited' = {}
    /\ temp_visited' = {}
    /\ order' = <<>>
    /\ stack' = <<>>
    /\ j' = 1
    /\ UNCHANGED <<outerVars, entry, parseVars, REGISTRY, input_data, n, calls, ret>>

CircularDependency(task) == Raised("ValueError: Circular dependency detected in flow", task)

\* EnterVisit with a task that is in progress taken for one that is done
EnterVisit_InProgressIsDone(task, stk) ==
    IF task \in temp_visited \cup visited
    THEN /\ stack' = stk
         /\ UNCHANGED <<pc, exc, temp_visited>>
    ELSE /\ temp_visited' = temp_visited \cup {task}
         /\ stack' = Append(stk, [task |-> task, todo |-> dependencies.at[task]])
         /\ UNCHANGED <<pc, exc>>

\* EnterVisit without the test that the task has been visited
EnterVisit_NoVisitedTest(task, stk) ==
    IF task \in temp_visited
    THEN /\ pc' = "raised"
         /\ exc' = CircularDependency(task)
         /\ stack' = <<>>
         /\ UNCHANGED temp_visited
    ELSE /\ temp_visited' = temp_visited \cup {task}
         /\ stack' = Append(stk, [task |-> task, todo |-> dependencies.at[task]])
         /\ UNCHANGED <<pc, exc>>

\* lines 354-359 of the call visit(task) made while stk are the active calls
EnterVisit(task, stk) ==
    IF task \in temp_visited
    THEN /\ pc' = "raised"
         /\ exc' = CircularDependency(task)
         /\ stack' = <<>>
         /\ UNCHANGED temp_visited
    ELSE IF task \in visited
    THEN /\ stack' = stk
         /\ UNCHANGED <<pc, exc, temp_visited>>
    ELSE /\ temp_visited' = temp_visited \cup {task}
         /\ stack' = Append(stk, [task |-> task, todo |-> dependencies.at[task]])
         /\ UNCHANGED <<pc, exc>>

\* lines 367-369: the next task of "for task in dependencies", or the end of the loop
SortLoop ==
    /\ pc = "sort"
    /\ stack = <<>>
    /\ IF j > Len(dependencies.keys)
       THEN /\ pc' = "execute"
            /\ n' = 1
            /\ UNCHANGED <<j, stack, temp_visited, exc>>
       ELSE /\ j' = j + 1
            /\ n' = n
            /\ IF dependencies.keys[j] \notin visited
               THEN EnterVisit(dependencies.keys[j], stack)
               ELSE UNCHANGED <<pc, stack, temp_visited, exc>>
    /\ UNCHANGED <<outerVars, entry, parseVars, REGISTRY, input_data, dependencies, visited, order,
                   results, calls, ret>>

\* VisitDep with the recursive call left out
VisitDep_NoRecursion ==
    /\ pc = "sort"
    /\ stack # <<>>
    /\ \E dep \in stack[Len(stack)].todo :
          stack' = [stack EXCEPT ![Len(stack)].todo = @ \ {dep}]
    /\ UNCHANGED <<outerVars, entry, pc, parseVars, REGISTRY, input_data, dependencies, visited,
                   temp_visited, order, j, n, results, calls, ret, exc>>

\* lines 360-361: the innermost visit takes the next dep of its set, in any order
VisitDep ==
    /\ pc = "sort"
    /\ stack # <<>>
    /\ \E dep \in stack[Len(stack)].todo :
          EnterVisit(dep, [stack EXCEPT ![Len(stack)].todo = @ \ {dep}])
    /\ UNCHANGED <<outerVars, entry, parseVars, REGISTRY, input_data, dependencies, visited, order,
                   j, n, results, calls, ret>>

\* lines 363-365: the innermost visit has visited every dep
VisitReturn ==
    /\ pc = "sort"
    /\ stack # <<>>
    /\ stack[Len(stack)].todo = {}
    /\ LET task == stack[Len(stack)].task
       IN  /\ temp_visited' = temp_visited \ {task}
           /\ visited' = visited \cup {task}
           /\ order' = Append(order, task)
    /\ stack' = SubSeq(stack, 1, Len(stack) - 1)
    /\ UNCHANGED <<outerVars, entry, pc, parseVars, REGISTRY, input_data, dependencies, j, n,
                   results, calls, ret, exc>>

\* lines 391-394: the keyword arguments taken from the results of the dependencies
DependencyArgs(task_deps, param_names, res) ==
    [a \in {dep \o S_result : dep \in task_deps} \cap param_names |->
        res[CHOOSE dep \in task_deps : dep \o S_result = a]]

\* WithInputArgs with the input data used only when no dependency gave an argument
WithInputArgs_OnlyWithoutDependencies(task_args, data, param_names) ==
    IF DOMAIN task_args = {}
    THEN [a \in DOMAIN data \cap param_names |-> data[a]]
    ELSE task_args

\* lines 397-399: the keyword arguments after the input data is added
WithInputArgs(task_args, data, param_names) ==
    [a \in DOMAIN task_args \cup (DOMAIN data \cap param_names) |->
        IF a \in DOMAIN data \cap param_names THEN data[a] ELSE task_args[a]]

\* TaskArgs with every available result offered, not only those of task_deps
TaskArgs_AnyResult(task_deps, param_names, res, data) ==
    WithInputArgs(DependencyArgs(DOMAIN res, param_names, res), data, param_names)

\* lines 383-399
TaskArgs(task_deps, param_names, res, data) ==
    WithInputArgs(DependencyArgs(task_deps, param_names, res), data, param_names)

\* results[dep] of line 394 raises KeyError
MissingResult(task_deps, param_names, res) ==
    \E dep \in task_deps : dep \o S_result \in param_names /\ dep \notin DOMAIN res

\* what a callable returns: the application of the callable to its keyword arguments
ResultOf(function, kwargs) == [src |-> "task", f |-> function, args |-> kwargs]

\* the exception a failing callable raises
TaskError(function) == Raised("TaskError", function)

TaskNotFound(task_name) == Raised("ValueError: Task not found in registry", task_name)

\* RaiseTaskNotFound with the unknown task skipped
RaiseTaskNotFound_Skip(task_name) ==
    /\ n' = n + 1
    /\ UNCHANGED <<pc, exc, results, calls>>

\* lines 374-375: the task has no entry in the registry
RaiseTaskNotFound(task_name) ==
    /\ pc' = "raised"
    /\ exc' = TaskNotFound(task_name)
    /\ UNCHANGED <<n, results, calls>>

\* lines 404-406: the callable returns
TaskCompleted(task_name, task_func, task_args) ==
    /\ calls' = Append(calls, [task |-> task_name, kwargs |-> task_args,
                               raised |-> NoException])
    /\ results' = (task_name :> ResultOf(task_func, task_args)) @@ results
    /\ n' = n + 1
    /\ UNCHANGED <<pc, exc>>

\* TaskFailed with the exception swallowed and the loop continued
TaskFailed_Continue(task_name, task_func, task_args) ==
    /\ calls' = Append(calls, [task |-> task_name, kwargs |-> task_args,
                               raised |-> TaskError(task_func)])
    /\ n' = n + 1
    /\ UNCHANGED <<pc, exc, results>>

\* lines 404, 407-409: the callable raises
TaskFailed(task_name, task_func, task_args) ==
    /\ calls' = Append(calls, [task |-> task_name, kwargs |-> task_args,
                               raised |-> TaskError(task_func)])
    /\ pc' = "raised"
    /\ exc' = TaskError(task_func)
    /\ UNCHANGED <<n, results>>

\* ExecuteTask with the result of a task also written into input_data, under the
\* name the tasks after it take it by
ExecuteTask_ResultIntoInput ==
    /\ pc = "execute"
    /\ n <= Len(order)
    /\ LET task_name == order[n]
           task_deps == dependencies.at[task_name]
       IN  IF task_name \notin DOMAIN REGISTRY
           THEN RaiseTaskNotFound(task_name) /\ UNCHANGED input_data
           ELSE IF MissingResult(task_deps, REGISTRY[task_name].params, results)
           THEN /\ pc' = "raised"
                /\ exc' = Raised("KeyError", task_name)
                /\ UNCHANGED <<n, results, calls, input_data>>
           ELSE LET task_func == REGISTRY[task_name].function
                    task_args == TaskArgs(task_deps, REGISTRY[task_name].params,
                                          results, input_data)
                IN  \E raises \in BOOLEAN :
                       IF raises
                       THEN TaskFailed(task_name, task_func, task_args)
                            /\ UNCHANGED input_data
                       ELSE TaskCompleted(task_name, task_func, task_args)
                            /\ input_data' = ((task_name \o S_result)
                                                :> ResultOf(task_func, task_args))
                                             @@ input_data
    /\ UNCHANGED <<outerVars, entry, parseVars, REGISTRY, dependencies, visited,
                   temp_visited, order, stack, j, ret>>

\* ExecuteTask with the result of every task run so far offered to the callable,
\* not only the results of the task's dependencies
ExecuteTask_ResultsSoFar ==
    /\ pc = "execute"
    /\ n <= Len(order)
    /\ LET task_name == order[n]
           task_deps == DOMAIN results
       IN  IF task_name \notin DOMAIN REGISTRY
           THEN RaiseTaskNotFound(task_name)
           ELSE LET task_func == REGISTRY[task_name].function
                    task_args == TaskArgs(task_deps, REGISTRY[task_name].params,
                                          results, input_data)
                IN  \E raises \in BOOLEAN :
                       IF raises
                       THEN TaskFailed(task_name, task_func, task_args)
                       ELSE TaskCompleted(task_name, task_func, task_args)
    /\ UNCHANGED <<outerVars, entry, parseVars, REGISTRY, input_data, dependencies, visited,
                   temp_visited, order, stack, j, ret>>

\* lines 372-409: one iteration of "for task_name in order"
ExecuteTask ==
    /\ pc = "execute"
    /\ n <= Len(order)
    /\ LET task_name == order[n]
           task_deps == dependencies.at[task_name]
       IN  IF task_name \notin DOMAIN REGISTRY
           THEN RaiseTaskNotFound(task_name)
           ELSE IF MissingResult(task_deps, REGISTRY[task_name].params, results)
           THEN /\ pc' = "raised"
                /\ exc' = Raised("KeyError", task_name)
                /\ UNCHANGED <<n, results, calls>>
           ELSE LET task_func == REGISTRY[task_name].function
                    task_args == TaskArgs(task_deps, REGISTRY[task_name].params,
                                          results, input_data)
                IN  \E raises \in BOOLEAN :
                       IF raises
                       THEN TaskFailed(task_name, task_func, task_args)
                       ELSE TaskCompleted(task_name, task_func, task_args)
    /\ UNCHANGED <<outerVars, entry, parseVars, REGISTRY, input_data, dependencies, visited,
                   temp_visited, order, stack, j, ret>>

\* line 411
ExecuteReturn ==
    /\ pc = "execute"
    /\ n > Len(order)
    /\ pc' = "done"
    /\ ret' = Returned("results", results)
    /\ UNCHANGED <<outerVars, entry, parseVars, REGISTRY, input_data, runVars, exc>>

(***************************************************************************)
(* The caller.                                                             *)
(***************************************************************************)
\* The caller calls run_flow_from_dsl again with the same arguments once the call
\* before has returned or raised.  The new call has its own locals, each assigned
\* by the code before it is read (lines 334-351), and calls starts again as the
\* record of this call's invocations.
CallAgain ==
    /\ pc \in {"done", "raised"}
    /\ Len(earlier) + 1 < MaxCalls
    /\ earlier' = Append(earlier, [ret |-> ret, exc |-> exc])
    /\ pc' = "parse_dsl"
    /\ ret' = NoReturn
    /\ exc' = NoException
    /\ calls' = <<>>
    /\ UNCHANGED <<utilVars, suspended, running, entry, parseVars, REGISTRY, input_data,
                   dependencies, visited, temp_visited, order, stack, j, n, results>>

\* the locals of the running call (lines 319-351 create them in each call)
Frame ==
    [pc |-> pc, dsl_text |-> dsl_text, input_data |-> input_data, flow_data |-> flow_data,
     current_task |-> current_task, i |-> i, dependencies |-> dependencies,
     visited |-> visited, temp_visited |-> temp_visited, order |-> order,
     stack |-> stack, j |-> j, n |-> n, results |-> results, calls |-> calls,
     ret |-> ret, exc |-> exc]

\* Switch with results held in one place for both calls
Switch_SharedResults ==
    /\ suspended # <<>>
    /\ suspended' = Frame
    /\ running' = 3 - running
    /\ pc' = suspended.pc
    /\ dsl_text' = suspended.dsl_text
    /\ input_data' = suspended.input_data
    /\ flow_data' = suspended.flow_data
    /\ current_task' = suspended.current_task
    /\ i' = suspended.i
    /\ dependencies' = suspended.dependencies
    /\ visited' = suspended.visited
    /\ temp_visited' = suspended.temp_visited
    /\ order' = suspended.order
    /\ stack' = suspended.stack
    /\ j' = suspended.j
    /\ n' = suspended.n
    /\ results' = results
    /\ calls' = suspended.calls
    /\ ret' = suspended.ret
    /\ exc' = suspended.exc
    /\ UNCHANGED <<utilVars, earlier, entry, REGISTRY>>

\* The other thread's call of run_flow_from_dsl goes on and this one waits: from
\* here on the code runs on the other call's locals.  This is also what happens when
\* a task callable calls run_flow_from_dsl itself and that call runs to its end.
Switch ==
    /\ suspended # <<>>
    /\ suspended' = Frame
    /\ running' = 3 - running
    /\ pc' = suspended.pc
    /\ dsl_text' = suspended.dsl_text
    /\ input_data' = suspended.input_data
    /\ flow_data' = suspended.flow_data
    /\ current_task' = suspended.current_task
    /\ i' = suspended.i
    /\ dependencies' = suspended.dependencies
    /\ visited' = suspended.visited
    /\ temp_visited' = suspended.temp_visited
    /\ order' = suspended.order
    /\ stack' = suspended.stack
    /\ j' = suspended.j
    /\ n' = suspended.n
    /\ results' = suspended.results
    /\ calls' = suspended.calls
    /\ ret' = suspended.ret
    /\ exc' = suspended.exc
    /\ UNCHANGED <<utilVars, earlier, entry, REGISTRY>>

(***************************************************************************)
(* The wrapper the task decorator returns (lines 78-141).                  *)
(***************************************************************************)
S_InputValidationError ==
    <<"I", "n", "p", "u", "t", " ", "d", "a", "t", "a", " ", "v", "a", "l",
      "i", "d", "a", "t", "i", "o", "n", " ", "e", "r", "r", "o", "r", ":", " ">>
S_OutputValidationError ==
    <<"O", "u", "t", "p", "u", "t", " ", "d", "a", "t", "a", " ", "v", "a", "l",
      "i", "d", "a", "t", "i", "o", "n", " ", "e", "r", "r", "o", "r", ":", " ">>

\* str(e) of the exceptions the validators and the function raise
MsgInput == <<"b", "a", "d", " ", "i", "n">>
MsgOutput == <<"b", "a", "d", " ", "o", "u", "t">>
MsgFunction == <<"b", "o", "o", "m">>

\* the value the wrapped function returns in the k-th call of the wrapper
FunctionValue(k) == [src |-> "task", f |-> <<"f">>, args |-> k]

\* the execution_info dict of the call in progress, and the dicts with one key set
ThisCall == Len(execution_info)
WithStatus(infos, status) == [infos EXCEPT ![Len(infos)].status = status]
WithError(infos, message) ==
    [infos EXCEPT ![Len(infos)].status = "FAILED", ![Len(infos)].error = message]

\* what a wrapper called, in which of its calls, and whether that raised
Invocation(k, callee, raised) == [call |-> k, callee |-> callee, raised |-> raised]

\* lines 78-91: a call of the wrapper begins
TaskCall ==
    /\ entry = "task_wrapper"
    /\ \/ pc = "call_task"
       \/ pc \in {"done", "raised"} /\ Len(execution_info) < MaxTaskCalls
    /\ execution_info' = Append(execution_info, [status |-> "RUNNING", error |-> <<>>])
    /\ pc' = "validate_input"
    /\ result' = <<>>
    /\ caught' = NoException
    /\ ret' = NoReturn
    /\ exc' = NoException
    /\ UNCHANGED <<flowVars, toolVars, flowWrapVars, entry,
                   validate_input, validate_output,
                   FLOW_HISTORY, invocations>>

\* ValidateInput with the failure recorded and the call carried on
ValidateInput_CarriesOn ==
    /\ pc = "validate_input"
    /\ IF validate_input = "None"
       THEN /\ pc' = "execute_function"
            /\ UNCHANGED <<execution_info, FLOW_HISTORY, invocations, exc>>
       ELSE \E raises \in BOOLEAN :
               /\ invocations' = Append(invocations,
                                        Invocation(ThisCall, "validate_input", raises))
               /\ IF raises
                  THEN /\ execution_info' = WithError(execution_info, MsgInput)
                       /\ FLOW_HISTORY' = Append(FLOW_HISTORY, ThisCall)
                       /\ pc' = "execute_function"
                       /\ UNCHANGED exc
                  ELSE /\ pc' = "execute_function"
                       /\ UNCHANGED <<execution_info, FLOW_HISTORY, exc>>
    /\ UNCHANGED <<flowVars, toolVars, flowWrapVars, entry,
                   validate_input, validate_output, result, caught, ret>>

\* lines 93-104
ValidateInput ==
    /\ pc = "validate_input"
    /\ IF validate_input = "None"
       THEN /\ pc' = "execute_function"
            /\ UNCHANGED <<execution_info, FLOW_HISTORY, invocations, exc>>
       ELSE \E raises \in BOOLEAN :
               /\ invocations' = Append(invocations,
                                        Invocation(ThisCall, "validate_input", raises))
               /\ IF raises
                  THEN /\ execution_info' = WithError(execution_info, MsgInput)
                       /\ FLOW_HISTORY' = Append(FLOW_HISTORY, ThisCall)
                       /\ pc' = "raised"
                       /\ exc' = Raised("ValueError", S_InputValidationError \o MsgInput)
                  ELSE /\ pc' = "execute_function"
                       /\ UNCHANGED <<execution_info, FLOW_HISTORY, exc>>
    /\ UNCHANGED <<flowVars, toolVars, flowWrapVars, entry,
                   validate_input, validate_output, result, caught, ret>>

\* lines 107-108: the wrapped function returns or raises
ExecuteFunction ==
    /\ pc = "execute_function"
    /\ \E raises \in BOOLEAN :
          /\ invocations' = Append(invocations, Invocation(ThisCall, "func", raises))
          /\ IF raises
             THEN /\ caught' = Raised("FunctionError", MsgFunction)
                  /\ pc' = "except"
                  /\ UNCHANGED result
             ELSE /\ result' = FunctionValue(ThisCall)
                  /\ pc' = "validate_output"
                  /\ UNCHANGED caught
    /\ UNCHANGED <<flowVars, toolVars, flowWrapVars, entry,
                   validate_input, validate_output, execution_info,
                   FLOW_HISTORY, ret, exc>>

\* ValidateOutput with the failure recorded and the result returned all the same
ValidateOutput_ReturnsAnyway ==
    /\ pc = "validate_output"
    /\ IF validate_output = "None"
       THEN /\ pc' = "completed"
            /\ UNCHANGED <<execution_info, FLOW_HISTORY, invocations, caught>>
       ELSE \E raises \in BOOLEAN :
               /\ invocations' = Append(invocations,
                                        Invocation(ThisCall, "validate_output", raises))
               /\ IF raises
                  THEN /\ execution_info' = WithError(execution_info, MsgOutput)
                       /\ FLOW_HISTORY' = Append(FLOW_HISTORY, ThisCall)
                       /\ pc' = "completed"
                       /\ UNCHANGED caught
                  ELSE /\ pc' = "completed"
                       /\ UNCHANGED <<execution_info, FLOW_HISTORY, caught>>
    /\ UNCHANGED <<flowVars, toolVars, flowWrapVars, entry,
                   validate_input, validate_output, result, ret, exc>>

\* lines 110-123: the ValueError raised at line 123 is inside the try of line 107
ValidateOutput ==
    /\ pc = "validate_output"
    /\ IF validate_output = "None"
       THEN /\ pc' = "completed"
            /\ UNCHANGED <<execution_info, FLOW_HISTORY, invocations, caught>>
       ELSE \E raises \in BOOLEAN :
               /\ invocations' = Append(invocations,
                                        Invocation(ThisCall, "validate_output", raises))
               /\ IF raises
                  THEN /\ execution_info' = WithError(execution_info, MsgOutput)
                       /\ FLOW_HISTORY' = Append(FLOW_HISTORY, ThisCall)
                       /\ caught' = Raised("ValueError", S_OutputValidationError \o MsgOutput)
                       /\ pc' = "except"
                  ELSE /\ pc' = "completed"
                       /\ UNCHANGED <<execution_info, FLOW_HISTORY, caught>>
    /\ UNCHANGED <<flowVars, toolVars, flowWrapVars, entry,
                   validate_input, validate_output, result, ret, exc>>

\* lines 125-132
WrapperCompleted ==
    /\ pc = "completed"
    /\ execution_info' = WithStatus(execution_info, "COMPLETED")
    /\ FLOW_HISTORY' = Append(FLOW_HISTORY, ThisCall)
    /\ ret' = Returned("result", result)
    /\ pc' = "done"
    /\ UNCHANGED <<flowVars, toolVars, flowWrapVars, entry,
                   validate_input, validate_output, result, caught,
                   invocations, exc>>

\* lines 133-142: the outer except clause records the failure and raises again
WrapperExcept ==
    /\ pc = "except"
    /\ execution_info' = WithError(execution_info, caught.about)
    /\ FLOW_HISTORY' = Append(FLOW_HISTORY, ThisCall)
    /\ exc' = caught
    /\ pc' = "raised"
    /\ UNCHANGED <<flowVars, toolVars, flowWrapVars, entry,
                   validate_input, validate_output, result, caught,
                   invocations, ret>>

(***************************************************************************)
(* The wrapper the retry decorator returns (utils/performance.py 31-66).   *)
(***************************************************************************)
\* the number of the call of the wrapper in progress, counting the caller's earlier calls
CallNo == Len(earlier) + 1

\* what the q-th invocation of the wrapped function returns or raises; every
\* exception object is a new one
ValueOfAttempt(q) == [src |-> "retry", f |-> <<"f">>, args |-> q]
ListedError(q) == Raised("ListedError", <<q>>)
UnlistedError(q) == Raised("UnlistedError", <<q>>)
SleepError == Raised("ValueError", <<"s", "l", "e", "e", "p">>)
OutcomesOfAttempt(q) ==
    {[ret |-> Returned("result", ValueOfAttempt(q)), exc |-> NoException],
     [ret |-> NoReturn, exc |-> ListedError(q)],
     [ret |-> NoReturn, exc |-> UnlistedError(q)]}
Attempted(k, outcome) ==
    [call |-> k, callee |-> "func", raised |-> outcome.exc # NoException,
     ret |-> outcome.ret, exc |-> outcome.exc]

\* lines 47-49: a call of the wrapper begins
RetryCall ==
    /\ entry = "retry_wrapper"
    /\ \/ pc = "call_retry" /\ UNCHANGED earlier
       \/ /\ pc \in {"done", "raised"}
          /\ CallNo < MaxRetryCalls
          /\ earlier' = Append(earlier, [ret |-> ret, exc |-> exc])
    /\ attempt' = 0
    /\ current_delay' = delay
    /\ ret' = NoReturn
    /\ exc' = NoException
    /\ pc' = "while"
    /\ UNCHANGED <<suspended, running, flowLocals, taskVars, cacheVars, schemaVars, entry,
                   invocations, max_attempts, delay, backoff, slept>>

\* line 51
RetryWhile ==
    /\ pc = "while"
    /\ pc' = IF attempt < max_attempts THEN "try" ELSE "after_loop"
    /\ UNCHANGED <<flowVars, taskVars, cacheVars, schemaVars, retryVars, entry, invocations,
                   ret, exc>>

\* RetryTry giving up only when attempt exceeds max_attempts
RetryTry_OneMore ==
    /\ pc = "try"
    /\ \E outcome \in OutcomesOfAttempt(Len(invocations) + 1) :
          /\ invocations' = Append(invocations, Attempted(CallNo, outcome))
          /\ IF outcome.exc = NoException
             THEN /\ ret' = outcome.ret
                  /\ pc' = "done"
                  /\ UNCHANGED <<attempt, exc>>
             ELSE IF outcome.exc.type = "ListedError"
             THEN /\ attempt' = attempt + 1
                  /\ IF attempt' > max_attempts
                     THEN exc' = outcome.exc /\ pc' = "raised"
                     ELSE pc' = "sleep" /\ UNCHANGED exc
                  /\ UNCHANGED ret
             ELSE /\ exc' = outcome.exc
                  /\ pc' = "raised"
                  /\ UNCHANGED <<attempt, ret>>
    /\ UNCHANGED <<flowVars, taskVars, cacheVars, schemaVars, entry, max_attempts, delay,
                   backoff, current_delay, slept>>

\* lines 52-58: one invocation of the wrapped function
RetryTry ==
    /\ pc = "try"
    /\ \E outcome \in OutcomesOfAttempt(Len(invocations) + 1) :
          /\ invocations' = Append(invocations, Attempted(CallNo, outcome))
          /\ IF outcome.exc = NoException
             THEN /\ ret' = outcome.ret
                  /\ pc' = "done"
                  /\ UNCHANGED <<attempt, exc>>
             ELSE IF outcome.exc.type = "ListedError"
             THEN /\ attempt' = attempt + 1
                  /\ IF attempt' >= max_attempts
                     THEN exc' = outcome.exc /\ pc' = "raised"
                     ELSE pc' = "sleep" /\ UNCHANGED exc
                  /\ UNCHANGED ret
             ELSE /\ exc' = outcome.exc
                  /\ pc' = "raised"
                  /\ UNCHANGED <<attempt, ret>>
    /\ UNCHANGED <<flowVars, taskVars, cacheVars, schemaVars, entry, max_attempts, delay,
                   backoff, current_delay, slept>>

\* RetrySleep with the delay left as it is after the sleep
RetrySleep_ConstantDelay ==
    /\ pc = "sleep"
    /\ IF current_delay < 0
       THEN /\ exc' = SleepError
            /\ pc' = "raised"
            /\ UNCHANGED <<slept, current_delay>>
       ELSE /\ slept' = Append(slept, current_delay)
            /\ current_delay' = current_delay
            /\ pc' = "while"
            /\ UNCHANGED exc
    /\ UNCHANGED <<flowVars, taskVars, cacheVars, schemaVars, entry, invocations, max_attempts,
                   delay, backoff, attempt, ret>>

\* lines 60-62: time.sleep raises ValueError for a negative argument
RetrySleep ==
    /\ pc = "sleep"
    /\ IF current_delay < 0
       THEN /\ exc' = SleepError
            /\ pc' = "raised"
            /\ UNCHANGED <<slept, current_delay>>
       ELSE /\ slept' = Append(slept, current_delay)
            /\ current_delay' = current_delay * backoff
            /\ pc' = "while"
            /\ UNCHANGED exc
    /\ UNCHANGED <<flowVars, taskVars, cacheVars, schemaVars, entry, invocations, max_attempts,
                   delay, backoff, attempt, ret>>

\* lines 64-65
RetryAfterLoop ==
    /\ pc = "after_loop"
    /\ ret' = Returned("None", <<>>)
    /\ pc' = "done"
    /\ UNCHANGED <<flowVars, taskVars, cacheVars, schemaVars, retryVars, entry, invocations,
                   exc>>

(***************************************************************************)
(* validate_schema (utils/validation.py 27-84).  A dict is a function from *)
(* its keys, a value carries its Python type, and a schema is the sequence *)
(* of its items in iteration order; an absent key of a field schema is     *)
(* type "" (falsy, like the None that .get returns) or a has_ flag.        *)
(***************************************************************************)
PyValue(type, value) == [type |-> type, value |-> value]

\* lines 59-66: type_map, with isinstance (bool is a subclass of int)
TypeMap ==
    [string |-> {"str"}, number |-> {"int", "float", "bool"}, integer |-> {"int", "bool"},
     boolean |-> {"bool"}, object |-> {"dict"}, array |-> {"list"}]

FieldSchema(field, required, type) ==
    [field |-> field, required |-> required, type |-> type,
     has_properties |-> FALSE, properties |-> <<>>, has_items |-> FALSE, items |-> <<>>]

\* the message of a ValueError, as the pieces the f-string joins
SchemaError(pieces) == Raised("ValueError", pieces)

RECURSIVE validate_schema_from(_, _, _)
RECURSIVE validate_items(_, _, _)

\* lines 41-82 for one item of schema.items(): the exception raised, or NoException
validate_field(data, fs) ==
    IF fs.required /\ fs.field \notin DOMAIN data
    THEN SchemaError(<<"Required field '", fs.field, "' is missing">>)
    ELSE IF fs.field \notin DOMAIN data
    THEN NoException
    ELSE IF fs.type = "null" /\ data[fs.field].type # "NoneType"
    THEN SchemaError(<<"Field '", fs.field, "' should be null">>)
    ELSE IF fs.type \in DOMAIN TypeMap /\ data[fs.field].type \notin TypeMap[fs.type]
    THEN SchemaError(<<"Field '", fs.field, "' should be of type ", fs.type>>)
    ELSE LET nested ==
                 IF fs.type = "object" /\ fs.has_properties /\ data[fs.field].type = "dict"
                 THEN validate_schema_from(data[fs.field].value, fs.properties, 1)
                 ELSE NoException
         IN  IF nested # NoException
             THEN nested
             ELSE IF fs.type = "array" /\ fs.has_items /\ data[fs.field].type = "list"
             THEN validate_items(data[fs.field].value, fs.items, 1)
             ELSE NoException

\* lines 79-82: the loop over the items of an array, from the p-th on
validate_items(items, properties, p) ==
    IF p > Len(items)
    THEN NoException
    ELSE LET raised == IF items[p].type = "dict"
                       THEN validate_schema_from(items[p].value, properties, 1)
                       ELSE NoException
         IN  IF raised # NoException THEN raised ELSE validate_items(items, properties, p + 1)

\* lines 41-84: the loop over schema.items(), from the p-th item on
validate_schema_from(data, fields, p) ==
    IF p > Len(fields)
    THEN NoException
    ELSE LET raised == validate_field(data, fields[p])
         IN  IF raised # NoException THEN raised ELSE validate_schema_from(data, fields, p + 1)

\* a call of validate_schema(data, schema)
ValidateSchemaCall ==
    /\ entry = "validate_schema"
    /\ pc = "call_validate_schema"
    /\ LET raised == validate_schema_from(json_data, schema, 1)
       IN  IF raised = NoException
           THEN ret' = Returned("bool", TRUE) /\ pc' = "done" /\ UNCHANGED exc
           ELSE exc' = raised /\ pc' = "raised" /\ UNCHANGED ret
    /\ UNCHANGED <<flowVars, taskVars, toolVars, entry, invocations>>

(***************************************************************************)
(* The wrapper the cache_result decorator returns (utils/performance.py    *)
(* 70-103).  cache is _cache[cache_key], the dict of the decorated         *)
(* function.                                                               *)
(***************************************************************************)
\* what the q-th invocation of the wrapped function returns
ValueOfInvocation(q) == [src |-> "cached", f |-> <<"f">>, args |-> q]
CacheError(q) == Raised("FunctionError", <<q>>)
Invoked(k, key, raised, value) ==
    [call |-> k, callee |-> "func", raised |-> raised, key |-> key, value |-> value]

\* line 89: the values of str(args) + str(sorted(kwargs.items())) for f(1) and f(2)
ArgKeys == {"(1,)[]", "(2,)[]"}

\* lines 93-96: the test that lets the wrapper return what the cache holds
Unexpired(stored, time) == ttl = <<>> \/ time - stored.timestamp < ttl[1]
CacheHit(key) == key \in DOMAIN cache /\ Unexpired(cache[key], now)

\* CacheCall with every cached entry returned, however old
CacheCall_NeverExpires ==
    /\ entry = "cache_wrapper"
    /\ \/ pc = "call_cache" /\ UNCHANGED earlier
       \/ /\ pc \in {"done", "raised"}
          /\ CallNo < MaxCacheCalls
          /\ earlier' = Append(earlier, [ret |-> ret, exc |-> exc])
    /\ \E key \in ArgKeys :
          /\ arg_key' = key
          /\ exc' = NoException
          /\ IF key \in DOMAIN cache
             THEN ret' = Returned("result", cache[key].result) /\ pc' = "done"
             ELSE ret' = NoReturn /\ pc' = "invoke"
    /\ UNCHANGED <<suspended, running, flowLocals, taskVars, retryVars, schemaVars, entry,
                   invocations, cache, ttl, now>>

\* lines 87-97: a call of the wrapper begins
CacheCall ==
    /\ entry = "cache_wrapper"
    /\ \/ pc = "call_cache" /\ UNCHANGED earlier
       \/ /\ pc \in {"done", "raised"}
          /\ CallNo < MaxCacheCalls
          /\ earlier' = Append(earlier, [ret |-> ret, exc |-> exc])
    /\ \E key \in ArgKeys :
          /\ arg_key' = key
          /\ exc' = NoException
          /\ IF CacheHit(key)
             THEN ret' = Returned("result", cache[key].result) /\ pc' = "done"
             ELSE ret' = NoReturn /\ pc' = "invoke"
    /\ UNCHANGED <<suspended, running, flowLocals, taskVars, retryVars, schemaVars, entry,
                   invocations, cache, ttl, now>>

\* line 100: the wrapped function returns or raises
CacheInvoke ==
    /\ pc = "invoke"
    /\ LET q == Len(invocations) + 1
       IN  \E raises \in BOOLEAN :
              IF raises
              THEN /\ invocations' = Append(invocations, Invoked(CallNo, arg_key, TRUE, <<>>))
                   /\ exc' = CacheError(q)
                   /\ pc' = "raised"
                   /\ UNCHANGED result
              ELSE /\ invocations' =
                         Append(invocations,
                                Invoked(CallNo, arg_key, FALSE, ValueOfInvocation(q)))
                   /\ result' = ValueOfInvocation(q)
                   /\ pc' = "store"
                   /\ UNCHANGED exc
    /\ UNCHANGED <<flowVars, toolVars, flowWrapVars, entry,
                   validate_input, validate_output, execution_info,
                   FLOW_HISTORY, caught, ret>>

\* lines 101-102
CacheStore ==
    /\ pc = "store"
    /\ cache' = (arg_key :> [result |-> result, timestamp |-> now]) @@ cache
    /\ ret' = Returned("result", result)
    /\ pc' = "done"
    /\ UNCHANGED <<flowVars, taskVars, retryVars, schemaVars, entry, invocations, ttl, now,
                   arg_key, exc>>

\* time passes: time.time() returns more than before
Tick ==
    /\ entry = "cache_wrapper"
    /\ now < MaxTime
    /\ now' = now + 1
    /\ UNCHANGED <<flowVars, taskVars, retryVars, schemaVars, entry, pc, invocations, cache,
                   ttl, arg_key, ret, exc>>

(***************************************************************************)
(* The wrapper the flow decorator returns (lines 169-216).                 *)
(***************************************************************************)
Slash == "/"

\* lines 196-197, 211-212: open(os.path.join(FLOW_DIR, f"{flow_id}.json"), "w")
\* raises FileNotFoundError when flow_id, which begins with flow_name, names a
\* directory that FLOW_DIR does not have
OpenRaises(name) == IsSubstring(<<Slash>>, name)
OpenError == Raised("FileNotFoundError", <<"o", "p", "e", "n">>)

\* what the wrapped function returns or raises in the k-th call of the wrapper
FlowValue(k) == [src |-> "flow", f |-> <<"f">>, args |-> k]
FlowError(k) == Raised("FunctionError", <<k>>)

\* json.dump(flow_info, f): the file of the k-th call with what flow_info holds
Dumped(k, info) == [flow_id |-> <<flow_name, k>>, status |-> info.status, error |-> info.error]

\* lines 169-183: a call of the wrapper begins
FlowCall ==
    /\ entry = "flow_wrapper"
    /\ \/ pc = "call_flow" /\ UNCHANGED earlier
       \/ /\ pc \in {"done", "raised"}
          /\ CallNo < MaxFlowCalls
          /\ earlier' = Append(earlier, [ret |-> ret, exc |-> exc])
    /\ flow_info' = [status |-> "RUNNING", error |-> <<>>]
    /\ result' = <<>>
    /\ caught' = NoException
    /\ ret' = NoReturn
    /\ exc' = NoException
    /\ pc' = "flow_function"
    /\ UNCHANGED <<suspended, running, flowLocals, toolVars, entry, validate_input,
                   validate_output, execution_info, FLOW_HISTORY, invocations, flow_name,
                   flow_files>>

\* lines 185-188: the wrapped function returns or raises
FlowExecute ==
    /\ pc = "flow_function"
    /\ \E raises \in BOOLEAN :
          /\ invocations' = Append(invocations, Invocation(CallNo, "func", raises))
          /\ IF raises
             THEN caught' = FlowError(CallNo) /\ pc' = "flow_except" /\ UNCHANGED result
             ELSE result' = FlowValue(CallNo) /\ pc' = "flow_completed" /\ UNCHANGED caught
    /\ UNCHANGED <<flowVars, toolVars, flowWrapVars, entry, validate_input, validate_output,
                   execution_info, FLOW_HISTORY, ret, exc>>

\* lines 190-200, still inside the try of line 185
FlowCompleted ==
    /\ pc = "flow_completed"
    /\ flow_info' = [flow_info EXCEPT !.status = "COMPLETED"]
    /\ IF OpenRaises(flow_name)
       THEN /\ caught' = OpenError
            /\ pc' = "flow_except"
            /\ UNCHANGED <<flow_files, ret>>
       ELSE /\ flow_files' = Append(flow_files, Dumped(CallNo, flow_info'))
            /\ ret' = Returned("result", result)
            /\ pc' = "done"
            /\ UNCHANGED caught
    /\ UNCHANGED <<flowVars, toolVars, entry, validate_input, validate_output,
                   execution_info, FLOW_HISTORY, result, invocations, flow_name, exc>>

\* lines 201-216: an exception raised by open replaces the one being handled
FlowExcept ==
    /\ pc = "flow_except"
    /\ flow_info' = [flow_info EXCEPT !.status = "FAILED", !.error = caught.about]
    /\ IF OpenRaises(flow_name)
       THEN exc' = OpenError /\ UNCHANGED flow_files
       ELSE exc' = caught /\ flow_files' = Append(flow_files, Dumped(CallNo, flow_info'))
    /\ pc' = "raised"
    /\ UNCHANGED <<flowVars, toolVars, entry, validate_input, validate_output,
                   execution_info, FLOW_HISTORY, result, caught, invocations, flow_name, ret>>

(***************************************************************************)
(* The inputs explored.                                                    *)
(***************************************************************************)
A == <<"a">>
B == <<"b">>
C == <<"c">>

LnFlowF == <<"f", "l", "o", "w", " ", "F", ":">>
LnDescQuoted == <<"d", "e", "s", "c", "r", "i", "p", "t", "i", "o", "n", ":", " ", "\"", "d", "\"">>
LnConnAB == <<"a", " ", "-", ">", " ", "b">>
LnConnBA == <<"b", " ", "-", ">", " ", "a">>
LnConnAC == <<"a", " ", "-", ">", " ", "c">>
LnConnBC == <<"b", " ", "-", ">", " ", "c">>
LnConnCB == <<"c", "-", ">", "b">>
LnConnAA == <<"a", " ", "-", ">", " ", "a">>
LnTaskA == <<"t", "a", "s", "k", " ", "a", ":">>
LnTaskB == <<"t", "a", "s", "k", " ", "b", ":">>
LnTaskC == <<"t", "a", "s", "k", " ", "c", ":">>
LnInputsX == <<" ", " ", "i", "n", "p", "u", "t", "s", ":", " ", "x">>
LnInputsA == <<"i", "n", "p", "u", "t", "s", ":", " ", "a">>
LnOutputsX == <<"o", "u", "t", "p", "u", "t", "s", ":", " ", "x">>
LnNameZ == <<"n", "a", "m", "e", ":", " ", "z">>
LnRetries == <<"r", "e", "t", "r", "i", "e", "s", ":", " ", "3">>
LnJunk == <<"b", "a", "d", " ", "x">>
LnBlank == <<" ", " ">>

\* all sequences over S of length at most k
SeqsUpTo(S, k) == UNION {[1..m -> S] : m \in 0..k}

ParseFirstLines == {LnFlowF, LnConnAB, LnBlank}
ParseLines ==
    {LnDescQuoted, LnConnAB, LnConnAC, LnConnCB, LnTaskA, LnTaskB, LnInputsX, LnInputsA,
     LnOutputsX, LnNameZ, LnRetries, LnJunk, LnBlank}
ParseTexts ==
    {<<>>} \cup {<<first>> \o body : first \in ParseFirstLines,
                                     body \in SeqsUpTo(ParseLines, MaxBodyParse)}

\* longer texts over fewer lines: description lines, declarations and properties
LnDescPlain == <<"d", "e", "s", "c", "r", "i", "p", "t", "i", "o", "n", ":", " ", "e">>
DeepLines ==
    {LnDescQuoted, LnDescPlain, LnConnAB, LnTaskA, LnTaskB, LnInputsX, LnInputsA, LnRetries}
DeepTexts == {<<LnFlowF>> \o body : body \in SeqsUpTo(DeepLines, MaxBodyDeep)}

RunLines == {LnConnAB, LnConnBA, LnConnAC, LnConnBC, LnConnAA, LnTaskC, LnInputsX}
RunTexts == {<<LnFlowF>> \o body : body \in SeqsUpTo(RunLines, MaxBodyRun)}

\* the callables registered under a, b and c, with their parameter names
Registered ==
    (A :> [function |-> A, params |-> {<<"x">>}])
    @@ (B :> [function |-> B, params |-> {A \o S_result, <<"x">>}])
    @@ (C :> [function |-> C, params |-> {A \o S_result, B \o S_result}])

Registries == {Registered, [t \in {A, B} |-> Registered[t]]}

InputValue(key) == [src |-> "input", f |-> key, args |-> <<>>]

InputDatas ==
    { <<>>,
      (<<"x">> :> InputValue(<<"x">>)) @@ (<<"y">> :> InputValue(<<"y">>)),
      (A \o S_result) :> InputValue(A \o S_result) }

\* the texts and input data of two calls made by two threads
ThreadLines == {LnConnAB, LnConnBC}
ThreadTexts == {<<LnFlowF>> \o body : body \in SeqsUpTo(ThreadLines, MaxBodyThreads)}
ThreadInputs == {<<>>, (<<"x">> :> InputValue(<<"x">>)) @@ (<<"y">> :> InputValue(<<"y">>))}

\* no function of the utils package is in use
NoTools ==
    /\ max_attempts = 0
    /\ delay = 0
    /\ backoff = 0
    /\ attempt = 0
    /\ current_delay = 0
    /\ slept = <<>>
    /\ cache = <<>>
    /\ ttl = <<>>
    /\ now = 0
    /\ arg_key = <<>>
    /\ json_data = <<>>
    /\ schema = <<>>

\* no function decorated with flow is in use
NoFlowWrapper ==
    /\ flow_name = <<>>
    /\ flow_info = <<>>
    /\ flow_files = <<>>

\* no decorated function is in use
NoWrapper ==
    /\ NoTools
    /\ NoFlowWrapper
    /\ validate_input = "None"
    /\ validate_output = "None"
    /\ execution_info = <<>>
    /\ FLOW_HISTORY = <<>>
    /\ result = <<>>
    /\ caught = NoException
    /\ invocations = <<>>

\* the locals of a call that has not begun
InitLocals ==
    /\ pc = "parse_dsl"
    /\ flow_data = InitialFlowData
    /\ current_task = <<>>
    /\ i = 1
    /\ dependencies = EmptyDict
    /\ visited = {}
    /\ temp_visited = {}
    /\ order = <<>>
    /\ stack = <<>>
    /\ j = 1
    /\ n = 1
    /\ results = <<>>
    /\ calls = <<>>
    /\ ret = NoReturn
    /\ exc = NoException

\* two threads, each about to call run_flow_from_dsl with arguments of its own
InitThreads ==
    /\ entry = "run_flow_from_dsl"
    /\ REGISTRY = Registered
    /\ earlier = <<>>
    /\ running = 1
    /\ NoWrapper
    /\ dsl_text \in ThreadTexts
    /\ input_data \in ThreadInputs
    /\ InitLocals
    /\ \E text \in ThreadTexts, data \in ThreadInputs :
          suspended = [Frame EXCEPT !.dsl_text = text, !.input_data = data]

\* the texts of the runs whose ordering is followed to its end
SortLines == {LnConnAB, LnConnAC, LnConnBC, LnConnBA}
SortTexts == {<<LnFlowF>> \o body : body \in SeqsUpTo(SortLines, MaxBodySort)}

InitCommon ==
    /\ earlier = <<>>
    /\ suspended = <<>>
    /\ running = 1
    /\ InitLocals
    /\ NoWrapper

InitParse ==
    /\ entry = "parse_dsl"
    /\ dsl_text \in ParseTexts
    /\ REGISTRY = Registered
    /\ input_data = <<>>
    /\ InitCommon

InitParseDeep ==
    /\ entry = "parse_dsl"
    /\ dsl_text \in DeepTexts
    /\ REGISTRY = Registered
    /\ input_data = <<>>
    /\ InitCommon

InitRun ==
    /\ entry = "run_flow_from_dsl"
    /\ dsl_text \in RunTexts
    /\ REGISTRY \in Registries
    /\ input_data \in InputDatas
    /\ InitCommon

InitSort ==
    /\ entry = "run_flow_from_dsl"
    /\ dsl_text \in SortTexts
    /\ REGISTRY = Registered
    /\ input_data \in ThreadInputs
    /\ InitCommon

\* a function decorated with task, with or without validators, about to be called
InitTask ==
    /\ entry = "task_wrapper"
    /\ pc = "call_task"
    /\ NoFlowWrapper
    /\ NoTools
    /\ validate_input \in {"None", "validator"}
    /\ validate_output \in {"None", "validator"}
    /\ execution_info = <<>>
    /\ FLOW_HISTORY = <<>>
    /\ result = <<>>
    /\ caught = NoException
    /\ invocations = <<>>
    /\ ret = NoReturn
    /\ exc = NoException
    /\ earlier = <<>>
    /\ suspended = <<>>
    /\ running = 1
    /\ dsl_text = <<>>
    /\ REGISTRY = Registered
    /\ input_data = <<>>
    /\ flow_data = InitialFlowData
    /\ current_task = <<>>
    /\ i = 1
    /\ dependencies = EmptyDict
    /\ visited = {}
    /\ temp_visited = {}
    /\ order = <<>>
    /\ stack = <<>>
    /\ j = 1
    /\ n = 1
    /\ results = <<>>
    /\ calls = <<>>

\* the state shared by the specifications of the utils package: no flow is run
NoFlow ==
    /\ earlier = <<>>
    /\ suspended = <<>>
    /\ running = 1
    /\ dsl_text = <<>>
    /\ REGISTRY = Registered
    /\ input_data = <<>>
    /\ flow_data = InitialFlowData
    /\ current_task = <<>>
    /\ i = 1
    /\ dependencies = EmptyDict
    /\ visited = {}
    /\ temp_visited = {}
    /\ order = <<>>
    /\ stack = <<>>
    /\ j = 1
    /\ n = 1
    /\ results = <<>>
    /\ calls = <<>>
    /\ ret = NoReturn
    /\ exc = NoException
    /\ validate_input = "None"
    /\ validate_output = "None"
    /\ execution_info = <<>>
    /\ FLOW_HISTORY = <<>>
    /\ result = <<>>
    /\ caught = NoException
    /\ invocations = <<>>

\* the arguments of retry explored; the delays stand for the floats of the code
Attempts == (0 - 1)..MaxAttempts
Delays == {0 - 1, 1, 2}
Backoffs == {1, 2}

\* a function decorated with retry, about to be called
InitRetry ==
    /\ entry = "retry_wrapper"
    /\ pc = "call_retry"
    /\ NoFlowWrapper
    /\ NoFlow
    /\ max_attempts \in Attempts
    /\ delay \in Delays
    /\ backoff \in Backoffs
    /\ attempt = 0
    /\ current_delay = 0
    /\ slept = <<>>
    /\ cache = <<>>
    /\ ttl = <<>>
    /\ now = 0
    /\ arg_key = <<>>
    /\ json_data = <<>>
    /\ schema = <<>>

\* the values, dicts and schemas validate_schema is called with
InnerDicts ==
    {<<>>, [y |-> PyValue("str", "s")], [y |-> PyValue("int", 1)]}
Scalars ==
    {PyValue("str", "s"), PyValue("int", 1), PyValue("float", 1), PyValue("bool", TRUE),
     PyValue("NoneType", "None")}
Values ==
    Scalars
    \cup {PyValue("dict", d) : d \in InnerDicts}
    \cup {PyValue("list", <<>>), PyValue("list", <<PyValue("int", 1)>>)}
    \cup {PyValue("list", <<PyValue("dict", d)>>) : d \in InnerDicts}
JsonDatas == {<<>>} \cup {[x |-> v] : v \in Values}
SchemaTypes ==
    {"", "string", "number", "integer", "boolean", "object", "array", "null", "date"}
InnerSchema == <<FieldSchema("y", TRUE, "string")>>
FieldSchemas ==
    {FieldSchema("x", required, type) : required \in BOOLEAN, type \in SchemaTypes}
    \cup {[FieldSchema("x", required, "object") EXCEPT
             !.has_properties = TRUE, !.properties = InnerSchema] : required \in BOOLEAN}
    \cup {[FieldSchema("x", required, "array") EXCEPT
             !.has_items = TRUE, !.items = InnerSchema] : required \in BOOLEAN}
Schemas ==
    {<<>>} \cup {<<fs>> : fs \in FieldSchemas}
    \cup {<<FieldSchema("w", required, "string"), fs>> :
             required \in BOOLEAN, fs \in FieldSchemas}

\* validate_schema about to be called
InitSchema ==
    /\ entry = "validate_schema"
    /\ pc = "call_validate_schema"
    /\ NoFlowWrapper
    /\ NoFlow
    /\ max_attempts = 0
    /\ delay = 0
    /\ backoff = 0
    /\ attempt = 0
    /\ current_delay = 0
    /\ slept = <<>>
    /\ cache = <<>>
    /\ ttl = <<>>
    /\ now = 0
    /\ arg_key = <<>>
    /\ json_data \in JsonDatas
    /\ schema \in Schemas

\* the ttl arguments of cache_result explored
Ttls == {<<>>, <<1>>, <<2>>}

\* a function decorated with cache_result, about to be called; nothing is cached
InitCache ==
    /\ entry = "cache_wrapper"
    /\ pc = "call_cache"
    /\ NoFlowWrapper
    /\ NoFlow
    /\ max_attempts = 0
    /\ delay = 0
    /\ backoff = 0
    /\ attempt = 0
    /\ current_delay = 0
    /\ slept = <<>>
    /\ cache = <<>>
    /\ ttl \in Ttls
    /\ now = 0
    /\ arg_key = <<>>
    /\ json_data = <<>>
    /\ schema = <<>>

\* the names given to flow(name=...) explored
FlowNames == {<<"f">>, <<"e", "t", "l">>, <<"e", "t", "l", Slash, "d">>}

\* a function decorated with flow, about to be called
InitFlowWrapper ==
    /\ entry = "flow_wrapper"
    /\ pc = "call_flow"
    /\ NoFlow
    /\ NoTools
    /\ flow_name \in FlowNames
    /\ flow_info = <<>>
    /\ flow_files = <<>>

NextParse == ParseStart \/ ParseLine \/ ParseFinish

NextRun ==
    \/ ParseStart
    \/ ParseLine
    \/ ParseFinish
    \/ BuildDependencies
    \/ SortLoop
    \/ VisitDep
    \/ VisitReturn
    \/ ExecuteTask
    \/ ExecuteReturn

SpecParse == InitParse /\ [][NextParse]_vars

SpecParseDeep == InitParseDeep /\ [][NextParse]_vars

SpecRun == InitRun /\ [][NextRun]_vars

\* a run is a sequence of steps of one thread of control: as long as the ordering
\* has a next step it takes it
SortStep == SortLoop \/ VisitDep \/ VisitReturn

SpecSortFair == InitSort /\ [][NextRun]_vars /\ WF_vars(SortStep)

NextRerun == NextRun \/ CallAgain

SpecRerun == InitRun /\ [][NextRerun]_vars

NextThreads == NextRun \/ Switch

SpecThreads == InitThreads /\ [][NextThreads]_vars

NextTask ==
    \/ TaskCall
    \/ ValidateInput
    \/ ExecuteFunction
    \/ ValidateOutput
    \/ WrapperCompleted
    \/ WrapperExcept

SpecTask == InitTask /\ [][NextTask]_vars

RetryStep == RetryWhile \/ RetryTry \/ RetrySleep \/ RetryAfterLoop

NextRetry == RetryCall \/ RetryStep

SpecRetry == InitRetry /\ [][NextRetry]_vars

\* the wrapped function and time.sleep return: a call that has begun is carried on
SpecRetryFair == SpecRetry /\ WF_vars(RetryStep)

NextSchema == ValidateSchemaCall

SpecSchema == InitSchema /\ [][NextSchema]_vars

NextCache == CacheCall \/ CacheInvoke \/ CacheStore \/ Tick

SpecCache == InitCache /\ [][NextCache]_vars

\* the wrapped function returns or raises: a call that has begun is carried on
SpecCacheFair == SpecCache /\ WF_vars(CacheInvoke \/ CacheStore)

NextFlowWrapper == FlowCall \/ FlowExecute \/ FlowCompleted \/ FlowExcept

SpecFlowWrapper == InitFlowWrapper /\ [][NextFlowWrapper]_vars

(***************************************************************************)
(* Notions the properties are stated with.                                 *)
(***************************************************************************)
\* q without the later occurrences of its elements
RECURSIVE FirstOccurrences(_)
FirstOccurrences(q) ==
    IF q = <<>> THEN <<>>
    ELSE LET r == FirstOccurrences(SubSeq(q, 1, Len(q) - 1))
         IN  IF \E p \in 1..Len(r) : r[p] = q[Len(q)] THEN r ELSE Append(r, q[Len(q)])

\* the sources of the connections into t, and the targets of those out of t, in order
SourcesInto(connections, t) ==
    LET sel == SelectSeq(connections, LAMBDA c : c.target = t)
    IN  [p \in 1..Len(sel) |-> sel[p].source]
TargetsOutOf(connections, t) ==
    LET sel == SelectSeq(connections, LAMBDA c : c.source = t)
    IN  [p \in 1..Len(sel) |-> sel[p].target]

\* the connection graph of the parsed flow: an edge from each source to its target
Edges ==
    {<<flow_data.connections[p].source, flow_data.connections[p].target>> :
        p \in 1..Len(flow_data.connections)}

DirectDependencies(t) == {e[1] : e \in {f \in Edges : f[2] = t}}

Successors(S) == {e[2] : e \in {f \in Edges : f[1] \in S}}

\* S and everything reachable from S
RECURSIVE ReachableFrom(_)
ReachableFrom(S) ==
    IF Successors(S) \subseteq S THEN S ELSE ReachableFrom(S \cup Successors(S))

OnCycle(t) == t \in ReachableFrom(Successors({t}))

HasCycle == \E e \in Edges : OnCycle(e[1])

\* the position of t in order, 0 when it is not in it
Position(t) ==
    IF \E p \in 1..Len(order) : order[p] = t
    THEN CHOOSE p \in 1..Len(order) : order[p] = t
    ELSE 0

\* the invocations of t so far
CallsOf(t) == {q \in 1..Len(calls) : calls[q].task = t}

\* parse_dsl has returned to its caller
ParseReturned ==
    \/ pc \in {"build_dependencies", "sort", "execute", "done"}
    \/ pc = "raised" /\ exc.type # "AttributeError"

(***************************************************************************)
(* Properties.                                                             *)
(***************************************************************************)
\* C1: parse_dsl is total: whatever the text, it does not raise, and what it returns
\* is a flow definition with exactly the keys name, description, tasks, connections.
C1_ParseTotal ==
    entry = "parse_dsl" =>
        /\ pc # "raised"
        /\ exc = NoException
        /\ pc = "done" =>
              /\ ret.kind = "flow_data"
              /\ DOMAIN ret.value = {"name", "description", "tasks", "connections"}

\* C2: in the flow parse_dsl returns, every task's inputs is the list of the distinct
\* sources of the connections into it and its outputs the list of the distinct targets
\* of the connections out of it, both in first-occurrence order.
C2_InputsOutputsMatchConnections ==
    (entry = "parse_dsl" /\ pc = "done") =>
        \A t \in DOMAIN ret.value.tasks.at :
            LET d == ret.value.tasks.at[t]
                cs == ret.value.connections
            IN  /\ S_inputs \in DOMAIN d
                /\ S_outputs \in DOMAIN d
                /\ d[S_inputs].t = "list"
                /\ d[S_outputs].t = "list"
                /\ d[S_inputs].l = FirstOccurrences(SourcesInto(cs, t))
                /\ d[S_outputs].l = FirstOccurrences(TargetsOutOf(cs, t))

\* C3: for an acyclic flow, the execution order puts the source of every connection
\* before its target; a task that is about to be invoked has a result for each of its
\* direct dependencies; and every invocation comes after an invocation of each direct
\* dependency that returned.
C3_DependenciesFirst ==
    (ParseReturned /\ ~HasCycle) =>
        /\ pc \in {"execute", "done"} =>
              \A e \in Edges :
                  /\ Position(e[1]) > 0
                  /\ Position(e[1]) < Position(e[2])
        /\ (pc = "execute" /\ n <= Len(order)) =>
              DirectDependencies(order[n]) \subseteq DOMAIN results
        /\ \A q \in 1..Len(calls) :
              \A d \in DirectDependencies(calls[q].task) :
                  \E p \in 1..(q - 1) :
                      calls[p].task = d /\ calls[p].raised = NoException

\* the third task of a - b - c with a -> c is about to be invoked, both results present
C3_Witness ==
    /\ pc = "execute"
    /\ n = 3
    /\ Len(order) = 3
    /\ Cardinality(DirectDependencies(order[3])) = 2
    /\ Cardinality(DirectDependencies(order[2])) = 1
    /\ DirectDependencies(order[3]) \subseteq DOMAIN results

\* C4: for a flow with a directed cycle, run_flow_from_dsl does not get past scheduling:
\* it raises the circular-dependency error, the task the error names is on a directed
\* cycle, and nothing is returned.
C4_CycleFailsScheduling ==
    (ParseReturned /\ HasCycle) =>
        /\ pc \in {"build_dependencies", "sort", "raised"}
        /\ pc = "raised" =>
              /\ exc.type = "ValueError: Circular dependency detected in flow"
              /\ OnCycle(exc.about)
        /\ ret = NoReturn

\* the error is raised for a cycle that the first task of the flow is not part of and
\* does not depend on
C4_Witness ==
    /\ pc = "raised"
    /\ exc.type = "ValueError: Circular dependency detected in flow"
    /\ dependencies.keys[1] \in visited
    /\ ~OnCycle(dependencies.keys[1])
    /\ exc.about \notin ReachableFrom({dependencies.keys[1]})

\* C5: for a flow with a directed cycle, no task callable is ever invoked.
C5_NoInvocationWhenCyclic == (ParseReturned /\ HasCycle) => calls = <<>>

\* the run has failed on a cycle after a registered task without dependencies was
\* already put in the order
C5_Witness ==
    /\ pc = "raised"
    /\ HasCycle
    /\ calls = <<>>
    /\ \E p \in 1..Len(order) :
          /\ order[p] \in DOMAIN REGISTRY
          /\ DirectDependencies(order[p]) = {}
          /\ ~OnCycle(order[p])

\* C6: every invocation of a task whose callable has a parameter <d>_result for a direct
\* dependency d receives results[d] as that parameter, whatever input_data holds.
C6_DependencyResultBound ==
    \A q \in 1..Len(calls) :
        \A d \in DirectDependencies(calls[q].task) :
            (d \o S_result) \in REGISTRY[calls[q].task].params =>
                /\ d \in DOMAIN results
                /\ (d \o S_result) \in DOMAIN calls[q].kwargs
                /\ calls[q].kwargs[d \o S_result] = results[d]

\* C7: every keyword argument of an invocation is a parameter name of the callable and
\* is <d>_result for a direct dependency d or a key of input_data; and an argument whose
\* value is the result of a task u is u_result, with u a direct dependency.
C7_OnlyDeclaredArguments ==
    \A q \in 1..Len(calls) :
        LET t == calls[q].task
            kw == calls[q].kwargs
        IN  /\ DOMAIN kw \subseteq REGISTRY[t].params
            /\ \A k \in DOMAIN kw :
                  \/ \E d \in DirectDependencies(t) : k = d \o S_result
                  \/ k \in DOMAIN input_data
            /\ \A k \in DOMAIN kw :
                  \A u \in DOMAIN results :
                      kw[k] = results[u] => (u \in DirectDependencies(t) /\ k = u \o S_result)

\* c was invoked without a_result although its callable has that parameter and a has a
\* result, a being an ancestor but no direct dependency; input_data has a key that is
\* nobody's parameter
C7_Witness ==
    /\ <<"y">> \in DOMAIN input_data
    /\ \E q \in 1..Len(calls) :
          /\ calls[q].task = <<"c">>
          /\ <<"a">> \in DOMAIN results
          /\ <<"a">> \notin DirectDependencies(<<"c">>)
          /\ <<"a">> \in ReachableFrom({<<"a">>}) /\ <<"c">> \in ReachableFrom({<<"a">>})
          /\ (<<"a">> \o S_result) \in REGISTRY[<<"c">>].params
          /\ (<<"a">> \o S_result) \notin DOMAIN calls[q].kwargs

\* C8: an invocation that raises is the last invocation of the run, the run raises the
\* very exception the callable raised, and returns nothing.
C8_TaskExceptionPropagates ==
    \A q \in 1..Len(calls) :
        calls[q].raised # NoException =>
            /\ q = Len(calls)
            /\ pc = "raised"
            /\ exc = calls[q].raised
            /\ ret = NoReturn

\* the second task of the order raised after the first returned, and a task that
\* depends on it is still to come
C8_Witness ==
    /\ pc = "raised"
    /\ Len(calls) = 2
    /\ calls[1].raised = NoException
    /\ exc = calls[2].raised
    /\ Len(order) = 3
    /\ calls[2].task \in DirectDependencies(order[3])

\* C9: a task without registry entry is never invoked; the execution loop does not get
\* past it: reaching it raises the unknown-task error naming it, with exactly the tasks
\* before it in the order invoked; and a run of a flow with such a task returns nothing.
C9_UnknownTaskFails ==
    /\ \A q \in 1..Len(calls) : calls[q].task \in DOMAIN REGISTRY
    /\ pc = "execute" => \A p \in 1..(n - 1) : order[p] \in DOMAIN REGISTRY
    /\ (\E t \in DOMAIN flow_data.tasks.at : t \notin DOMAIN REGISTRY) =>
          (pc # "done" /\ ret = NoReturn)
    /\ exc.type = "ValueError: Task not found in registry" =>
          /\ pc = "raised"
          /\ n <= Len(order)
          /\ exc.about = order[n]
          /\ order[n] \notin DOMAIN REGISTRY
          /\ Len(calls) = n - 1
          /\ \A p \in 1..(n - 1) : calls[p].task = order[p] /\ calls[p].raised = NoException
    /\ (/\ pc = "raised"
        /\ ParseReturned
        /\ ~HasCycle
        /\ \A q \in 1..Len(calls) : calls[q].raised = NoException) =>
          exc.type = "ValueError: Task not found in registry"

\* the unknown task is the second of three: the first was invoked, the third never is
C9_Witness ==
    /\ exc.type = "ValueError: Task not found in registry"
    /\ n = 2
    /\ Len(order) = 3
    /\ Len(calls) = 1
    /\ order[3] \in DOMAIN REGISTRY

\* C10: when run_flow_from_dsl returns, the keys of the returned results are the keys of
\* the flow's tasks, every task was invoked exactly once, results[t] is what t's callable
\* returns for the results of t's dependencies, and no entry of results is ever
\* overwritten or removed during the run.
C10_ResultsOfEveryTask ==
    /\ [](pc = "done" =>
            /\ ret.kind = "results"
            /\ DOMAIN ret.value = DOMAIN flow_data.tasks.at
            /\ \A t \in DOMAIN flow_data.tasks.at :
                  /\ Cardinality(CallsOf(t)) = 1
                  /\ ret.value[t].src = "task"
                  /\ ret.value[t].f = REGISTRY[t].function
                  /\ \A d \in DirectDependencies(t) :
                        (d \o S_result) \in REGISTRY[t].params =>
                            /\ (d \o S_result) \in DOMAIN ret.value[t].args
                            /\ ret.value[t].args[d \o S_result] = ret.value[d])
    /\ [][\A t \in DOMAIN results : t \in DOMAIN results' /\ results'[t] = results[t]]_vars

\* no line of the text is a description line, a connection line or a task declaration
NoRecognizedLine ==
    \A p \in 1..Len(lines) :
        /\ ~startswith(lines[p], S_descriptionColon)
        /\ ~connection_match(lines[p]).ok
        /\ ~task_match(lines[p]).ok

\* C11: for the empty text and for every text none of whose lines is a connection,
\* a task declaration or a description line, parse_dsl returns a flow named
\* UnnamedFlow (or named by the flow header, when the first line is one) with no
\* tasks and no connections.
C11_NothingRecognized ==
    (entry = "parse_dsl" /\ NoRecognizedLine) =>
        /\ pc # "raised"
        /\ pc = "done" =>
              /\ ret.value.name =
                    IF lines # <<>> /\ flow_match(lines[1]).ok
                    THEN flow_match(lines[1]).g1
                    ELSE S_UnnamedFlow
              /\ ret.value.tasks = EmptyDict
              /\ ret.value.connections = <<>>

\* a returned flow whose text has a junk first line and a property line and nothing else
C11_Witness ==
    /\ entry = "parse_dsl"
    /\ pc = "done"
    /\ NoRecognizedLine
    /\ Len(lines) >= 2
    /\ ~flow_match(lines[1]).ok
    /\ \E p \in 2..Len(lines) : IndexOf(lines[p], ":", 1) > 0
    /\ ret.value.name = S_UnnamedFlow

\* every source and target of the connections of fd is a key of its tasks
EndpointsAreTasks(fd) ==
    \A p \in 1..Len(fd.connections) :
        /\ DictHas(fd.tasks, fd.connections[p].source)
        /\ DictHas(fd.tasks, fd.connections[p].target)

\* the key of the property line "retries: 3"
K_retries == strip(split_colon(LnRetries)[1], Whitespace)

\* C12: after every processed line and in the returned value, every source and
\* target of a connection is a key of tasks; a line that adds a connection creates
\* the tasks it mentions first with empty inputs and outputs, and leaves every task
\* that already exists as it is, properties included.
C12_ConnectionsNameTasks ==
    /\ [](EndpointsAreTasks(flow_data)
          /\ (ret.kind = "flow_data" => EndpointsAreTasks(ret.value)))
    /\ [][(pc = "parse_loop" /\ Len(flow_data'.connections) > Len(flow_data.connections)) =>
            /\ \A t \in DOMAIN flow_data.tasks.at :
                  /\ t \in DOMAIN flow_data'.tasks.at
                  /\ flow_data'.tasks.at[t] = flow_data.tasks.at[t]
            /\ \A t \in DOMAIN flow_data'.tasks.at \ DOMAIN flow_data.tasks.at :
                  /\ flow_data'.tasks.at[t][S_inputs] = ListV(<<>>)
                  /\ flow_data'.tasks.at[t][S_outputs] = ListV(<<>>)]_vars

\* a returned flow with a connection between a task that was declared and given a
\* property before the connection line, and a task the connection line created
C12_Witness ==
    /\ entry = "parse_dsl"
    /\ pc = "done"
    /\ \E p \in 1..Len(ret.value.connections) :
          LET c == ret.value.connections[p]
          IN  /\ K_retries \in DOMAIN ret.value.tasks.at[c.target]
              /\ DOMAIN ret.value.tasks.at[c.source] = {S_name, S_inputs, S_outputs}
              /\ ret.value.tasks.at[c.source][S_inputs] = ListV(<<>>)

\* the connections the lines ls[2..k] declare, in the order of the lines
RECURSIVE ConnectionsOfLines(_, _)
ConnectionsOfLines(ls, k) ==
    IF k < 2 THEN <<>>
    ELSE LET rest == ConnectionsOfLines(ls, k - 1)
             m == connection_match(ls[k])
         IN  IF m.ok /\ ~startswith(ls[k], S_descriptionColon)
             THEN Append(rest, [source |-> m.g1, target |-> m.g2])
             ELSE rest

\* the number of positions of the list l that hold x
Occurrences(l, x) == Cardinality({q \in 1..Len(l) : l[q] = x})

\* C13: the connections list has one entry per connection line after the first
\* line, in the order of the lines, duplicates kept; processing a line only ever
\* appends to it; in the returned flow the inputs and outputs lists the second pass
\* derives hold the other end of each connection exactly once, however many times
\* the connection is declared.
C13_ConnectionsAppendOnly ==
    /\ [](entry = "parse_dsl" =>
            /\ pc = "parse_loop" =>
                  flow_data.connections = ConnectionsOfLines(lines, i - 1)
            /\ pc = "done" =>
                  /\ ret.value.connections = ConnectionsOfLines(lines, Len(lines))
                  /\ \A p \in 1..Len(ret.value.connections) :
                        LET c == ret.value.connections[p]
                            outs == ret.value.tasks.at[c.source][S_outputs]
                            ins == ret.value.tasks.at[c.target][S_inputs]
                        IN  /\ outs.t = "list" => Occurrences(outs.l, c.target) = 1
                            /\ ins.t = "list" => Occurrences(ins.l, c.source) = 1)
    /\ [][pc = "parse_loop" =>
            /\ Len(flow_data'.connections) >= Len(flow_data.connections)
            /\ SubSeq(flow_data'.connections, 1, Len(flow_data.connections))
                  = flow_data.connections]_vars

\* a returned flow whose text declares the same connection twice: two equal entries
\* in connections, one element in the outputs of its source and the inputs of its target
C13_Witness ==
    /\ entry = "parse_dsl"
    /\ pc = "done"
    /\ \E p, q \in 1..Len(ret.value.connections) :
          /\ p < q
          /\ ret.value.connections[p] = ret.value.connections[q]
          /\ ret.value.tasks.at[ret.value.connections[p].source][S_outputs]
                = ListV(<<ret.value.connections[p].target>>)
          /\ ret.value.tasks.at[ret.value.connections[p].target][S_inputs]
                = ListV(<<ret.value.connections[p].source>>)

\* what a line after the first is: the first kind in this order whose pattern it has
LineKind(line) ==
    IF startswith(line, S_descriptionColon) THEN "description"
    ELSE IF connection_match(line).ok THEN "connection"
    ELSE IF task_match(line).ok THEN "task"
    ELSE IF IndexOf(line, ":", 1) > 0 THEN "colon"
    ELSE "other"

\* the positions after the first line of the lines of a kind
LinesOfKind(kind) ==
    LET ls == lines IN {p \in 2..Len(ls) : LineKind(ls[p]) = kind}
ConnectionLines == LinesOfKind("connection")
TaskLines == LinesOfKind("task")
DescriptionLines == LinesOfKind("description")

\* the kind of the line the parse loop is at
KindOfNext == LET ls == lines IN IF i \in 2..Len(ls) THEN LineKind(ls[i]) ELSE "none"

\* the task ids the lines after the first mention
MentionedAfterFirst ==
    {connection_match(lines[p]).g1 : p \in ConnectionLines}
        \cup {connection_match(lines[p]).g2 : p \in ConnectionLines}
        \cup {task_match(lines[p]).g1 : p \in TaskLines}

\* C14: the first non-blank line only names the flow: the name is the id of a
\* "flow <id>:" header and UnnamedFlow for any other first line, and the returned
\* tasks, connections, description and properties are those of the lines after it.
C14_FirstLineOnlyNames ==
    (entry = "parse_dsl" /\ lines # <<>>) =>
        /\ pc \in {"parse_loop", "done"} =>
              flow_data.name = IF flow_match(lines[1]).ok THEN flow_match(lines[1]).g1
                               ELSE S_UnnamedFlow
        /\ pc = "done" =>
              /\ ret.value.name = flow_data.name
              /\ DOMAIN ret.value.tasks.at = MentionedAfterFirst
              /\ Len(ret.value.connections) = Cardinality(ConnectionLines)
              /\ DescriptionLines = {} => ret.value.description = <<>>
              /\ TaskLines = {} =>
                    \A t \in DOMAIN ret.value.tasks.at :
                        DOMAIN ret.value.tasks.at[t] = {S_name, S_inputs, S_outputs}

\* a returned flow whose text begins with the line "a -> b", followed by a property
\* line: UnnamedFlow, no connection, no task
C14_Witness ==
    /\ entry = "parse_dsl"
    /\ pc = "done"
    /\ Len(lines) >= 2
    /\ connection_match(lines[1]).ok
    /\ \E p \in 2..Len(lines) : IndexOf(lines[p], ":", 1) > 0
    /\ ret.value.name = S_UnnamedFlow
    /\ ret.value.connections = <<>>
    /\ ret.value.tasks = EmptyDict

\* the value a description line gives the flow's description
DescriptionValue(line) == strip(strip(split_colon(line)[2], Whitespace), Quote)

\* the description after the lines up to the k-th: that of the last description
\* line among them, the empty one when there is none
DescriptionAfter(k) ==
    IF DescriptionLines \cap 2..k = {} THEN <<>>
    ELSE DescriptionValue(
             lines[CHOOSE p \in DescriptionLines \cap 2..k :
                        \A q \in DescriptionLines \cap 2..k : q <= p])

\* C15: a line beginning with "description:" is a description line whatever the
\* context: it sets the flow's description (the last such line wins) and changes no
\* task, no connection and not the current task, even after a task declaration; and
\* a task declaration is never taken for a property of the current task.
C15_DescriptionBeforeProperty ==
    /\ [](entry = "parse_dsl" =>
            /\ pc = "parse_loop" => flow_data.description = DescriptionAfter(i - 1)
            /\ pc = "done" => ret.value.description = DescriptionAfter(Len(lines)))
    /\ [][(pc = "parse_loop" /\ KindOfNext = "description") =>
            /\ flow_data'.description = DescriptionValue(lines[i])
            /\ flow_data'.tasks = flow_data.tasks
            /\ flow_data'.connections = flow_data.connections
            /\ current_task' = current_task]_vars
    /\ [][(pc = "parse_loop" /\ KindOfNext = "task") =>
            \A t \in DOMAIN flow_data.tasks.at :
                flow_data'.tasks.at[t] = flow_data.tasks.at[t]]_vars

\* a returned flow with two description lines of different values after a task
\* declaration, the second one last, and a property line after a description line
\* that still reached the task
C15_Witness ==
    /\ entry = "parse_dsl"
    /\ pc = "done"
    /\ \E t \in TaskLines, p, q \in DescriptionLines, r \in 2..Len(lines) :
          /\ t < p /\ p < r /\ r < q
          /\ DescriptionValue(lines[p]) # DescriptionValue(lines[q])
          /\ ret.value.description = DescriptionValue(lines[q])
          /\ lines[r] = strip(LnRetries, Whitespace)
          /\ K_retries \in DOMAIN ret.value.tasks.at[task_match(lines[t]).g1]

\* the positions after the first line of the lines that are none of the above and
\* contain a colon
ColonLines == LinesOfKind("colon")

\* the task of the last task declaration among the lines up to the k-th, <<>> when
\* there is none
CurrentAfter(k) ==
    IF TaskLines \cap 2..k = {} THEN <<>>
    ELSE task_match(lines[CHOOSE p \in TaskLines \cap 2..k :
                              \A q \in TaskLines \cap 2..k : q <= p]).g1

\* C16: the current task is always the one of the most recent task declaration,
\* whatever connection and description lines came since; a line with a colon that
\* is no description, connection or declaration changes nothing when there is no
\* current task, and otherwise sets its key on the current task to its value,
\* overwriting an earlier value and touching nothing else; a task declaration
\* leaves every existing task as it is.
C16_PropertiesGoToCurrentTask ==
    /\ []((entry = "parse_dsl" /\ pc = "parse_loop") => current_task = CurrentAfter(i - 1))
    /\ [][(pc = "parse_loop" /\ KindOfNext = "colon") =>
            LET line == lines[i]
                key == strip(SubSeq(line, 1, IndexOf(line, ":", 1) - 1), Whitespace)
                value == DescriptionValue(line)
            IN  IF current_task = <<>>
                THEN flow_data' = flow_data
                ELSE /\ flow_data'.name = flow_data.name
                     /\ flow_data'.description = flow_data.description
                     /\ flow_data'.connections = flow_data.connections
                     /\ flow_data'.tasks.keys = flow_data.tasks.keys
                     /\ \A t \in DOMAIN flow_data.tasks.at \ {current_task} :
                           flow_data'.tasks.at[t] = flow_data.tasks.at[t]
                     /\ DOMAIN flow_data'.tasks.at[current_task]
                           = DOMAIN flow_data.tasks.at[current_task] \cup {key}
                     /\ flow_data'.tasks.at[current_task][key] = StrV(value)
                     /\ \A k \in DOMAIN flow_data.tasks.at[current_task] \ {key} :
                           flow_data'.tasks.at[current_task][k]
                              = flow_data.tasks.at[current_task][k]]_vars
    /\ [][(pc = "parse_loop" /\ KindOfNext = "task") =>
            /\ flow_data'.tasks.keys = flow_data.tasks.keys
                  \/ flow_data'.tasks.keys = Append(flow_data.tasks.keys, current_task')
            /\ \A t \in DOMAIN flow_data.tasks.at :
                  /\ t \in DOMAIN flow_data'.tasks.at
                  /\ flow_data'.tasks.at[t] = flow_data.tasks.at[t]]_vars

\* a returned flow whose text declares a task, declares another, declares the first
\* again and then has a property line: the property is on the first task and not
\* on the other
C16_Witness ==
    /\ entry = "parse_dsl"
    /\ pc = "done"
    /\ \E t1, t2, t3 \in TaskLines, r \in ColonLines :
          /\ t1 < t2 /\ t2 < t3 /\ t3 < r
          /\ task_match(lines[t1]).g1 = task_match(lines[t3]).g1
          /\ task_match(lines[t1]).g1 # task_match(lines[t2]).g1
          /\ lines[r] = strip(LnRetries, Whitespace)
          /\ K_retries \in DOMAIN ret.value.tasks.at[task_match(lines[t1]).g1]
          /\ K_retries \notin DOMAIN ret.value.tasks.at[task_match(lines[t2]).g1]

\* C17: the second pass applied once more to the flow parse_dsl returned, with the
\* same connections, does not raise and gives back the same tasks: no inputs or
\* outputs value changes and no element is added a second time.
C17_SecondPassIdempotent ==
    (entry = "parse_dsl" /\ pc = "done") =>
        LET again == ProcessConnections(ret.value.tasks, ret.value.connections, 1)
        IN  /\ again.ok
            /\ again.tasks = ret.value.tasks

\* a returned flow with a task whose derived inputs hold two sources
C17_Witness ==
    /\ entry = "parse_dsl"
    /\ pc = "done"
    /\ \E t \in DOMAIN ret.value.tasks.at :
          /\ ret.value.tasks.at[t][S_inputs].t = "list"
          /\ Len(ret.value.tasks.at[t][S_inputs].l) = 2

\* the set of elements of a task's inputs value: of a list its items, of a str its
\* characters
ElementsOf(v) ==
    IF v.t = "list" THEN {v.l[q] : q \in 1..Len(v.l)} ELSE {<<v.s[q]>> : q \in 1..Len(v.s)}

\* C18: once built, the dependency map has exactly the flow's task ids as keys, the
\* value of each task is the set of the sources of the connections into it, and
\* that set is the set of elements of the task's inputs.
C18_DependencyMap ==
    pc \in {"sort", "execute", "done"} =>
        /\ DOMAIN dependencies.at = DOMAIN flow_data.tasks.at
        /\ \A t \in DOMAIN dependencies.at :
              /\ dependencies.at[t] = DirectDependencies(t)
              /\ dependencies.at[t] = ElementsOf(flow_data.tasks.at[t][S_inputs])

\* the invocations of this call that returned
ReturnedCalls == {q \in 1..Len(calls) : calls[q].raised = NoException}

\* C20: in a call of run_flow_from_dsl made after an earlier call on the same text,
\* whether that call returned or raised, the results mapping is empty when
\* scheduling begins, it only ever holds what the callables invoked by this call
\* returned to it, and when the call returns every task of the flow has been
\* invoked once by this call.
C20_NoMemoization ==
    earlier # <<>> =>
        /\ pc = "sort" => results = <<>>
        /\ pc \in {"sort", "execute", "done"} =>
              /\ DOMAIN results = {calls[q].task : q \in ReturnedCalls}
              /\ \A q \in ReturnedCalls :
                    results[calls[q].task]
                       = ResultOf(REGISTRY[calls[q].task].function, calls[q].kwargs)
        /\ pc = "done" =>
              /\ ret.value = results
              /\ \A t \in DOMAIN flow_data.tasks.at : Cardinality(CallsOf(t)) = 1

\* a second call that has returned after invoking two tasks or more, the first call
\* having returned the results of two tasks or more
C20_Witness ==
    /\ earlier # <<>>
    /\ earlier[1].ret.kind = "results"
    /\ Cardinality(DOMAIN earlier[1].ret.value) >= 2
    /\ pc = "done"
    /\ Len(calls) >= 2

\* The results a call of run_flow_from_dsl with the text and the input data returns
\* when no other call runs: for each task of the text, the callable applied to the
\* arguments it gets from the input data and from the results of the sources of the
\* connections into it.
TasksOfText(text) ==
    LET ls == StrippedLines(text)
        conns == ConnectionsOfLines(ls, Len(ls))
    IN  {conns[p].source : p \in 1..Len(conns)} \cup {conns[p].target : p \in 1..Len(conns)}
            \cup {task_match(ls[p]).g1 :
                    p \in {q \in 2..Len(ls) : /\ ~startswith(ls[q], S_descriptionColon)
                                              /\ ~connection_match(ls[q]).ok
                                              /\ task_match(ls[q]).ok}}
SourcesOfText(text, t) ==
    LET ls == StrippedLines(text)
        conns == ConnectionsOfLines(ls, Len(ls))
    IN  {conns[p].source : p \in {q \in 1..Len(conns) : conns[q].target = t}}
RECURSIVE ResultAlone(_, _, _)
ResultAlone(text, data, t) ==
    ResultOf(REGISTRY[t].function,
             TaskArgs(SourcesOfText(text, t), REGISTRY[t].params,
                      [d \in SourcesOfText(text, t) |-> ResultAlone(text, data, d)], data))
ResultsAlone(text, data) == [t \in TasksOfText(text) |-> ResultAlone(text, data, t)]

\* C19: however the steps of two calls of run_flow_from_dsl in two threads
\* interleave, a call that returns returns the results it returns when it runs
\* alone, and its dependency map, visited set and order are those of its own text.
C19_RunsAreIsolated ==
    /\ pc = "done" => ret.value = ResultsAlone(dsl_text, input_data)
    /\ pc \in {"execute", "done"} =>
          /\ DOMAIN dependencies.at = TasksOfText(dsl_text)
          /\ \A t \in DOMAIN dependencies.at :
                dependencies.at[t] = SourcesOfText(dsl_text, t)
          /\ visited = TasksOfText(dsl_text)
          /\ {order[p] : p \in 1..Len(order)} = TasksOfText(dsl_text)
    /\ (suspended # <<>> /\ suspended.pc = "done") =>
          suspended.ret.value = ResultsAlone(suspended.dsl_text, suspended.input_data)

\* both calls are in the middle of their execution loops, each has invoked a task
\* and has one left to invoke, and they hold different results for the same task
C19_Witness ==
    /\ suspended # <<>>
    /\ pc = "execute"
    /\ suspended.pc = "execute"
    /\ calls # <<>> /\ n <= Len(order)
    /\ suspended.calls # <<>> /\ suspended.n <= Len(suspended.order)
    /\ \E t \in DOMAIN results \cap DOMAIN suspended.results :
          results[t] # suspended.results[t]

\* C21: no step of a run of run_flow_from_dsl, whether the run returns or raises,
\* changes the task registry or the input_data mapping the caller passed: no entry
\* or key is added, removed or replaced.
C21_RegistryAndInputUnchanged ==
    [][REGISTRY' = REGISTRY /\ input_data' = input_data]_vars

\* a run that has returned after two invocations or more, with input data that
\* reached a callable
C21_Witness ==
    /\ entry = "run_flow_from_dsl"
    /\ pc = "done"
    /\ Len(calls) >= 2
    /\ input_data # <<>>
    /\ \E q \in 1..Len(calls) : DOMAIN calls[q].kwargs \cap DOMAIN input_data # {}

\* the ordering is under way or done, for a flow whose connections have no cycle
SortingAcyclic == pc = "sort" /\ ~HasCycle

\* C22: for a flow without a cycle the depth-first ordering does not raise, it
\* ends, and the order it leaves has every task of the flow exactly once.
C22_SchedulingTotal ==
    /\ [](~HasCycle =>
            /\ exc.type # CircularDependency(<<>>).type
            /\ pc \in {"execute", "done"} =>
                  /\ Len(order) = Cardinality(DOMAIN flow_data.tasks.at)
                  /\ \A t \in DOMAIN flow_data.tasks.at :
                        Cardinality({p \in 1..Len(order) : order[p] = t}) = 1)
    /\ [][SortingAcyclic => pc' # "raised"]_vars
    /\ (SortingAcyclic ~> pc = "execute")

\* the ordering has ended for a flow of three tasks in which two connections leave
\* the same task
C22_Witness ==
    /\ pc = "execute"
    /\ n = 1
    /\ ~HasCycle
    /\ Len(order) = 3
    /\ \E e, f \in Edges : e[1] = f[1] /\ e[2] # f[2]

\* the run has raised the error of a task that is not in the registry
UnknownTaskRaised == pc = "raised" /\ exc.type = TaskNotFound(<<>>).type

\* C29: the error of a task missing from the registry is raised when the execution
\* loop reaches that task and not before: the ordering is complete, the task is the
\* one the loop is at, and every task ordered before it has been invoked, once, and
\* has returned.
C29_LookupWhenReached ==
    UnknownTaskRaised =>
        /\ n \in 1..Len(order)
        /\ order[n] = exc.about
        /\ Len(order) = Cardinality(DOMAIN flow_data.tasks.at)
        /\ Len(calls) = n - 1
        /\ \A p \in 1..(n - 1) :
              /\ calls[p].task = order[p]
              /\ calls[p].raised = NoException
              /\ order[p] \in DOMAIN results

\* the error of the unknown task c, raised after a and b were invoked
C29_Witness ==
    /\ UnknownTaskRaised
    /\ exc.about = C
    /\ Len(calls) = 2
    /\ {calls[1].task, calls[2].task} = {A, B}

\* C30: every invocation, of a task with dependencies or without, binds each key of
\* input_data that is a parameter name of the callable to its input_data value, and
\* passes no parameter that is neither such a key nor the result name of a source
\* of a connection into the task.
C30_InputRoutedToEveryTask ==
    ParseReturned =>
        \A q \in 1..Len(calls) :
            LET t == calls[q].task
                kwargs == calls[q].kwargs
                param_names == REGISTRY[t].params
            IN  /\ \A k \in DOMAIN input_data \cap param_names :
                      k \in DOMAIN kwargs /\ kwargs[k] = input_data[k]
                /\ \A k \in param_names :
                      (/\ k \notin DOMAIN input_data
                       /\ \A d \in DirectDependencies(t) : k # d \o S_result)
                          => k \notin DOMAIN kwargs

\* an invocation of a task with a dependency that got both the result of the
\* dependency and a value of input_data, and an invocation that got no argument for
\* a parameter nothing matches
C30_Witness ==
    /\ ParseReturned
    /\ \E q \in 1..Len(calls) :
          /\ DirectDependencies(calls[q].task) # {}
          /\ \E k \in DOMAIN calls[q].kwargs : k \in DOMAIN input_data
          /\ \E k \in DOMAIN calls[q].kwargs : k \notin DOMAIN input_data
    /\ \E q \in 1..Len(calls) : REGISTRY[calls[q].task].params \ DOMAIN calls[q].kwargs # {}


\* the calls of the wrapper in which a callee was invoked with the given outcome
CallsWhere(callee, raised) ==
    {k \in 1..Len(execution_info) :
        \E q \in 1..Len(invocations) : invocations[q] = Invocation(k, callee, raised)}
InvocationsIn(k, callee) ==
    {q \in 1..Len(invocations) : invocations[q].call = k /\ invocations[q].callee = callee}

\* C23: in a call of the wrapper of a function registered with validate_input=v,
\* when v raises the wrapper raises a ValueError whose message contains v's
\* message, the wrapped function is not invoked in that call and the call's
\* execution record is marked FAILED; when v does not raise the function is
\* invoked (once) and, when it returns and no output validator objects, the
\* wrapper returns the function's value.
C23_InputValidation ==
    /\ \A k \in CallsWhere("validate_input", TRUE) :
          /\ InvocationsIn(k, "func") = {}
          /\ execution_info[k].status = "FAILED"
          /\ execution_info[k].error = MsgInput
          /\ k = ThisCall =>
                /\ pc = "raised"
                /\ exc.type = "ValueError"
                /\ IsSubstring(MsgInput, exc.about)
                /\ ret = NoReturn
    /\ \A k \in CallsWhere("validate_input", FALSE) :
          /\ \/ k = ThisCall /\ pc = "execute_function" /\ InvocationsIn(k, "func") = {}
             \/ Cardinality(InvocationsIn(k, "func")) = 1
          /\ (/\ k = ThisCall
              /\ k \in CallsWhere("func", FALSE)
              /\ k \notin CallsWhere("validate_output", TRUE))
             => \/ pc \in {"validate_output", "completed"}
                \/ pc = "done" /\ ret = Returned("result", FunctionValue(k)) /\ exc = NoException

\* a second call in which the input validator raised, after a first one that it let
\* through and that returned the function's value
C23_Witness ==
    /\ validate_input = "validator"
    /\ CallsWhere("validate_input", FALSE) = {1}
    /\ execution_info[1].status = "COMPLETED"
    /\ CallsWhere("validate_input", TRUE) = {2}
    /\ ThisCall = 2
    /\ pc = "raised"

\* C24: in a call of the wrapper of a function registered with validate_output=v,
\* when v raises on the value the function returned the wrapper does not return
\* that value: it raises a ValueError whose message contains v's message, and the
\* call's execution record ends with status FAILED.
C24_OutputValidation ==
    \A k \in CallsWhere("validate_output", TRUE) :
       /\ k \in CallsWhere("func", FALSE)
       /\ execution_info[k].status = "FAILED"
       /\ k = ThisCall =>
             /\ pc \in {"except", "raised"}
             /\ ret = NoReturn
             /\ pc = "raised" =>
                   /\ exc.type = "ValueError"
                   /\ IsSubstring(MsgOutput, exc.about)
                   /\ exc.about = execution_info[k].error

\* the output validator raised on the value the function returned and the wrapper
\* has raised
C24_Witness ==
    /\ validate_output = "validator"
    /\ ThisCall \in CallsWhere("validate_output", TRUE)
    /\ result = FunctionValue(ThisCall)
    /\ pc = "raised"


\* the invocations of the wrapped function made in the k-th call of the retry wrapper
AttemptsOf(k) == SelectSeq(invocations, LAMBDA a : a.call = k)

\* how the k-th call of the retry wrapper ended, once it has
RetryEnded(k) == k < CallNo \/ (k = CallNo /\ pc \in {"done", "raised"})
RetryOutcome(k) == IF k < CallNo THEN earlier[k] ELSE [ret |-> ret, exc |-> exc]
RetryCallsBegun == IF pc = "call_retry" THEN {} ELSE 1..CallNo

\* the safety part of C25, for one call
RetryWithinAttempts(k) ==
    LET attempts == AttemptsOf(k)
        last == attempts[Len(attempts)]
    IN  /\ Len(attempts) <= max_attempts
        /\ \A q \in 1..(Len(attempts) - 1) : attempts[q].exc.type = "ListedError"
        /\ (Len(attempts) > 0 /\ ~last.raised) =>
              RetryEnded(k) /\ RetryOutcome(k) = [ret |-> last.ret, exc |-> NoException]
        /\ (/\ Len(attempts) = max_attempts
            /\ \A q \in 1..Len(attempts) : attempts[q].exc.type = "ListedError")
           => RetryEnded(k) /\ RetryOutcome(k) = [ret |-> NoReturn, exc |-> last.exc]

\* C25: with max_attempts = n >= 1, a call of the retry wrapper invokes the function
\* at most n times; an invocation that does not raise is the last one of the call
\* and its value is what the wrapper returns; when all n invocations raise a listed
\* exception the wrapper raises the exception of the n-th; and a call that has
\* begun ends (returns or raises), the function and time.sleep returning.
C25_RetryBounded ==
    /\ [](max_attempts >= 1 => \A k \in RetryCallsBegun : RetryWithinAttempts(k))
    /\ \A k \in 1..MaxRetryCalls :
          (max_attempts >= 1 /\ k \in RetryCallsBegun) ~> RetryEnded(k)

\* the second call of a wrapper with max_attempts = 3 raised the exception of its
\* third invocation, after a first call that returned the value of its second
C25_Witness ==
    /\ max_attempts = 3
    /\ CallNo = 2
    /\ Len(AttemptsOf(1)) = 2
    /\ earlier[1].ret = AttemptsOf(1)[2].ret
    /\ earlier[1].exc = NoException
    /\ Len(AttemptsOf(2)) = 3
    /\ pc = "raised"
    /\ exc = AttemptsOf(2)[3].exc
    /\ exc.type = "ListedError"

\* C26: the statement after the loop of the retry wrapper is never reached: for
\* every max_attempts, a call that ended returned a value the wrapped function
\* returned in that call or raised an exception the wrapped function raised in it.
C26_AfterLoopUnreachable ==
    /\ pc # "after_loop"
    /\ \A k \in RetryCallsBegun :
          RetryEnded(k) =>
             \E q \in 1..Len(AttemptsOf(k)) :
                /\ AttemptsOf(k)[q].ret = RetryOutcome(k).ret
                /\ AttemptsOf(k)[q].exc = RetryOutcome(k).exc


\* the required fields of the schema that the data lacks, and the fields whose value
\* is not of the type the schema gives
MissingRequired ==
    {p \in 1..Len(schema) : schema[p].required /\ schema[p].field \notin DOMAIN json_data}
WrongType ==
    {p \in 1..Len(schema) :
        /\ schema[p].field \in DOMAIN json_data
        /\ schema[p].type \in DOMAIN TypeMap
        /\ json_data[schema[p].field].type \notin TypeMap[schema[p].type]}

\* C27: a call of validate_schema ends by returning a boolean, and for data that
\* lacks a required field or has a field of the wrong type the value returned is
\* False.
C27_ReturnsFalse ==
    (entry = "validate_schema" /\ pc # "call_validate_schema") =>
        /\ pc = "done"
        /\ ret.kind = "bool"
        /\ (MissingRequired # {} \/ WrongType # {}) => ret.value = FALSE


\* a step in which a call of the cache wrapper begins
CacheCallBegins ==
    /\ entry = "cache_wrapper"
    /\ (pc = "call_cache" /\ pc' # "call_cache") \/ Len(earlier') > Len(earlier)

\* the first sentence of C28, as a property of the steps of a call
CachedOrInvoked ==
    /\ CacheCallBegins =>
          IF arg_key' \in DOMAIN cache
             /\ (ttl = <<>> \/ now - cache[arg_key'].timestamp < ttl[1])
          THEN /\ pc' = "done"
               /\ ret' = Returned("result", cache[arg_key'].result)
               /\ invocations' = invocations
               /\ cache' = cache
          ELSE pc' = "invoke"
    /\ (pc = "invoke" /\ pc' # "invoke") =>
          /\ Len(invocations') = Len(invocations) + 1
          /\ invocations'[Len(invocations')].call = CallNo
          /\ invocations'[Len(invocations')].key = arg_key
          /\ cache' = cache
    /\ (pc = "store" /\ pc' # "store") =>
          LET last == invocations[Len(invocations)]
          IN  /\ ~last.raised
              /\ cache' = (arg_key :> [result |-> last.value, timestamp |-> now]) @@ cache
              /\ ret' = Returned("result", last.value)
              /\ pc' = "done"

InvocationsFor(key) == {q \in 1..Len(invocations) : invocations[q].key = key}

\* C28: a call of the cache wrapper whose argument key has a cached entry that is
\* unexpired (ttl is None, or now - stored timestamp < ttl) returns the cached
\* value without invoking the function; otherwise the function is invoked and its
\* result stored with the current time; and with ttl None the function is invoked
\* at most once per argument key over any sequence of calls.
C28_InvokedOncePerKey ==
    /\ [][CachedOrInvoked]_vars
    /\ [](ttl = <<>> => \A key \in ArgKeys : Cardinality(InvocationsFor(key)) <= 1)

\* C28 amended: as above, but with ttl None the function is not invoked again for
\* an argument key once an invocation for that key has returned (every invocation
\* for the key but the last one raised, and nothing was stored for them).
C28_InvokedUntilReturned ==
    /\ [][CachedOrInvoked]_vars
    /\ [](ttl = <<>> =>
            \A key \in ArgKeys :
               \A q, r \in InvocationsFor(key) : q < r => invocations[q].raised)

\* with ttl None: the first call raised, the second call, with the same key,
\* invoked the function again and stored its value, and the third call returned
\* that value from the cache, later on the clock, without an invocation
C28_Witness ==
    /\ entry = "cache_wrapper"
    /\ ttl = <<>>
    /\ CallNo = 3
    /\ pc = "done"
    /\ Len(invocations) = 2
    /\ invocations[1].raised /\ invocations[1].call = 1 /\ invocations[1].key = arg_key
    /\ ~invocations[2].raised /\ invocations[2].call = 2 /\ invocations[2].key = arg_key
    /\ ret = Returned("result", invocations[2].value)
    /\ now > cache[arg_key].timestamp


\* the tasks in the order the scheduler left, as a set, and a pair of tasks neither
\* of which the other depends on, directly or through other tasks
Ordered == {order[p] : p \in 1..Len(order)}
RECURSIVE Ancestors(_, _)
Ancestors(text, t) ==
    SourcesOfText(text, t)
        \cup UNION {Ancestors(text, d) : d \in SourcesOfText(text, t)}
Independent(text, s, t) ==
    s # t /\ s \notin Ancestors(text, t) /\ t \notin Ancestors(text, s)

\* C31: whichever order the scheduler produced (a task's dependency set may be
\* iterated in any order), every result recorded during the execution, and the
\* results mapping that run_flow_from_dsl returns, is the one fixed by the text and
\* input_data alone: each task's callable applied to the input data and to the
\* results of the sources of the connections into it.
C31_ResultsOrderFree ==
    /\ pc \in {"execute", "done"} =>
          \A t \in DOMAIN results : results[t] = ResultAlone(dsl_text, input_data, t)
    /\ pc = "done" =>
          /\ ret.value = results
          /\ DOMAIN results = Ordered
          /\ DOMAIN results = TasksOfText(dsl_text)

\* a run has returned after executing two mutually independent tasks against the
\* order in which the flow's tasks were first mentioned: b before a, where the
\* dependency map has a before b and c depends on both
C31_Witness ==
    /\ pc = "done"
    /\ \E p, q \in 1..Len(order) :
          /\ p < q
          /\ Independent(dsl_text, order[p], order[q])
          /\ \E kp, kq \in 1..Len(dependencies.keys) :
                /\ dependencies.keys[kp] = order[p]
                /\ dependencies.keys[kq] = order[q]
                /\ kq < kp
    /\ Cardinality(DOMAIN ret.value) = 3


\* the calls of the task wrapper that have ended, and the entries of FLOW_HISTORY
\* that are the record of the k-th call
TaskCallsEnded ==
    {k \in 1..Len(execution_info) : k < ThisCall \/ pc \in {"done", "raised"}}
RecordsOf(k) == {h \in 1..Len(FLOW_HISTORY) : FLOW_HISTORY[h] = k}

\* C32: every call of a task-decorated function that has ended, on whichever path
\* (it returned, the input validator raised, the output validator raised, the
\* function raised), has appended exactly one execution record to FLOW_HISTORY;
\* the record's status is COMPLETED when the call returned and FAILED when it
\* raised; and no record in FLOW_HISTORY has status RUNNING.
C32_OneRecordPerCall ==
    entry = "task_wrapper" =>
       /\ \A k \in TaskCallsEnded :
             /\ Cardinality(RecordsOf(k)) = 1
             /\ execution_info[k].status \in {"COMPLETED", "FAILED"}
             /\ (k = ThisCall /\ pc = "done") => execution_info[k].status = "COMPLETED"
             /\ (k = ThisCall /\ pc = "raised") => execution_info[k].status = "FAILED"
       /\ \A h \in 1..Len(FLOW_HISTORY) : execution_info[FLOW_HISTORY[h]].status # "RUNNING"


\* the files written by the k-th call of the flow wrapper, and how the wrapped
\* function ended in the call in progress
FilesOf(k) == {h \in 1..Len(flow_files) : flow_files[h].flow_id = <<flow_name, k>>}
FlowFunctionEnded(raised) ==
    \E q \in 1..Len(invocations) : invocations[q] = Invocation(CallNo, "func", raised)

\* C33: a call of a flow-decorated function ends with its flow record in one
\* terminal status: COMPLETED when the function returned, the wrapper then
\* returning the function's value, and FAILED when it raised, the wrapper then
\* raising the same exception; and the record is persisted once, with that
\* terminal status, never with RUNNING.
C33_OneTerminalStatus ==
    entry = "flow_wrapper" =>
       /\ \A h \in 1..Len(flow_files) : flow_files[h].status \in {"COMPLETED", "FAILED"}
       /\ FlowFunctionEnded(FALSE) =>
             /\ flow_info.status \in {"RUNNING", "COMPLETED"}
             /\ pc \in {"flow_completed", "done"}
             /\ pc = "done" =>
                   /\ ret = Returned("result", FlowValue(CallNo))
                   /\ flow_info.status = "COMPLETED"
                   /\ \E h \in FilesOf(CallNo) :
                         FilesOf(CallNo) = {h} /\ flow_files[h].status = "COMPLETED"
       /\ FlowFunctionEnded(TRUE) =>
             /\ flow_info.status \in {"RUNNING", "FAILED"}
             /\ pc \in {"flow_except", "raised"}
             /\ pc = "raised" =>
                   /\ exc = FlowError(CallNo)
                   /\ flow_info.status = "FAILED"
                   /\ \E h \in FilesOf(CallNo) :
                         FilesOf(CallNo) = {h} /\ flow_files[h].status = "FAILED"


RECURSIVE Power(_, _)
Power(b, e) == IF e = 0 THEN 1 ELSE b * Power(b, e - 1)

\* the invocations that raised a listed exception and were followed by another
\* invocation in the same call of the retry wrapper
FollowedFailures ==
    {q \in 1..(Len(invocations) - 1) :
        /\ invocations[q].exc.type = "ListedError"
        /\ invocations[q + 1].call = invocations[q].call}

\* the call in progress has slept after its latest failure and goes on to the next
\* invocation
AboutToRetry == pc \in {"while", "try"} /\ attempt >= 1

\* C34: in the retry wrapper an exception that is not listed leaves the wrapper
\* from the invocation that raised it, which is the last of its call, with no
\* sleep after it; a sleep is made after a listed failure only when another
\* invocation follows in the same call (so never after the final failed attempt);
\* and the k-th sleep of a call lasts delay * backoff^(k-1).
C34_SleepsBetweenAttempts ==
    entry = "retry_wrapper" =>
       /\ \A q \in 1..Len(invocations) :
             invocations[q].exc.type = "UnlistedError" =>
                /\ q < Len(invocations) => invocations[q + 1].call # invocations[q].call
                /\ (q = Len(invocations) /\ invocations[q].call = CallNo) =>
                      pc = "raised" /\ exc = invocations[q].exc
       /\ pc # "sleep" =>
             Len(slept) = Cardinality(FollowedFailures) + (IF AboutToRetry THEN 1 ELSE 0)
       /\ pc = "sleep" =>
             /\ Len(slept) = Cardinality(FollowedFailures)
             /\ attempt < max_attempts
             /\ invocations[Len(invocations)].exc.type = "ListedError"
             /\ current_delay = delay * Power(backoff, attempt - 1)
       /\ AboutToRetry =>
             /\ attempt < max_attempts
             /\ \A k \in 1..attempt :
                   slept[Len(slept) - attempt + k] = delay * Power(backoff, k - 1)

\* the first call ended with an unlisted exception from its only invocation and
\* no sleep; the second call, with max_attempts = 3, slept delay and then
\* delay * backoff between its three failed invocations and not after the third
C34_Witness ==
    /\ entry = "retry_wrapper"
    /\ max_attempts = 3
    /\ delay = 2
    /\ backoff = 2
    /\ CallNo = 2
    /\ Len(AttemptsOf(1)) = 1
    /\ earlier[1].exc.type = "UnlistedError"
    /\ Len(AttemptsOf(2)) = 3
    /\ pc = "raised"
    /\ exc.type = "ListedError"
    /\ slept = <<2, 4>>

====
